---- MODULE Spec2Model ----
(***************************************************************************)
(* Event-detection-to-delivery pipeline of the GitHub star / release bot:  *)
(* the star monitor, the release monitor, the digest scheduler, the        *)
(* asyncio queue between them and the notification worker, the per-        *)
(* destination send chain, and the shutdown sequence of run().             *)
(*                                                                         *)
(* Python values are modelled as follows.  A str that the code compares    *)
(* or tests for truth is a sequence; the empty sequence stands for both    *)
(* None and "" (the code only ever tests such values with `not x`).        *)
(* An item of the asyncio queue is a record: shape says whether the        *)
(* producer put a bare str or a 2-tuple, kind and repo are its contents.   *)
(* The variables enq_log, deq_log, ack_log, stop_mark, cycle, rel_last,    *)
(* send_last, since_idle, handling, track_flip, held and retry_log are     *)
(* history variables: they record what the code did and never decide what  *)
(* an action does to the program's own state.                              *)
(***************************************************************************)
EXTENDS Integers, Sequences, FiniteSets, TLC

\* ------------------------------------------------------------------ bounds
MaxTs == 3
MaxPage == 2
MaxEnq == 3
MaxRel == 2
MaxBurst == 2
MaxDests == 2
MaxBase == 1
MaxUrls == 2
MaxAnswered == 4
MaxClock == 1
MaxSignals == 1

Repos == {"a/b", "x/y"}
Dests == {"100", "200/7"}
\* the ids a destination table can hold: target_id is a TEXT column, so also
\* an id whose thread part is not a number
StoredDests == Dests \cup {"300/x"}

VARIABLES
    last_check_timestamp,   \* bot_state['last_check_timestamp'], <<>> = no row
    digest_mode,            \* value returned by get_digest_mode()
    digest_queue,           \* rows of digest_queue in insertion order
    release_state,          \* repository_release_state: repo -> stored id
    destinations,           \* table destinations
    release_destinations,   \* table release_destinations
    repo_queue,             \* asyncio.Queue contents, head first
    unfinished,             \* asyncio.Queue._unfinished_tasks
    star_pc,                \* star monitor: "wait" | "handover" | "stopped"
    star_events,            \* starred_events of the running star cycle
    star_new,               \* new_starred_events not yet handed over
    star_mode,              \* digest_mode local of the running star cycle
    rel_pc,                 \* release monitor: "wait" | "checking" | "stopped"
    rel_pending,            \* check tasks of the running gather()
    stop_event,             \* asyncio.Event shared by run() and the worker
    phase,                  \* run(): "running" | "stopping" | "closed"
    stop_mark,              \* number of items put before the shutdown began
    wpc,                    \* worker: "get" | "sleep" | "process" | "send" | "exited"
    is_first_item_in_batch, \* local of notification_worker
    notification_type,      \* local of notification_worker
    repo_full_name,         \* local of notification_worker, "" = None
    targets,                \* payload["destinations"] not yet sent to
    media_group,            \* payload["media_group"], by kind
    enq_log,                \* every item ever put on repo_queue, in order
    deq_log,                \* every item the worker got from repo_queue
    ack_log,                \* seq of the item of every task_done() call
    cycle,                  \* what the last star cycle saw and did
    rel_last,               \* what the last per-repo release check saw and did
    send_last,              \* what the last _send_notification call did
    since_idle,             \* items got since the worker started or timed out
    handling,               \* what the worker did for the item it got last
    tracked_list,           \* table tracked_list: the list slug, "" = no row
    track_flip,             \* flips at every call of a tracking-list handler
    held,                   \* repo -> the ids its stored entry has held
    retry_pc,               \* _execute_with_retry: "idle" | "call" | "sleep" | "done"
    attempt,                \* local of _execute_with_retry
    retry_result,           \* what _execute_with_retry returned, <<>> = None
    retry_log,              \* outcome of every api_call of the running wrapper
    media_pc,               \* _build_media_group: "idle" | "built"
    media_in,               \* the URLs handed to _build_media_group, each with what its probe answers
    media_out,              \* the media list it returned
    probe_log,              \* the URL of every get_media_info call it made
    all_media_urls,         \* the URLs extract_media_from_readme found for the last ranking call
    clock,                  \* the second CURRENT_TIMESTAMP reads
    db_lock,                \* DatabaseManager._write_lock: "" or the task that holds it
    digest_job,             \* the running _send_digest: its position, its job and the list it read
    loop_pc,                \* _run_check_loop of each monitor: "top" | "token" | "call" | "cycle" | "interval" | "wait" | "cooldown" | "ended"
    settings_changed,       \* the asyncio.Event _settings_changed of each monitor
    cancel_requested,       \* each monitor: its task has been cancelled and not yet resumed
    monitoring_paused,      \* bot_state[monitoring_paused] = "1"
    token_stored,           \* bot_state has a github_token row
    loop_log,               \* each monitor: signals raised, where the last one found the loop, restarts they caused, what the last test found
    starred                 \* the stars of the account, newest first, as GET /user/starred?sort=created&direction=desc lists them

dbStarVars == <<last_check_timestamp, digest_mode, digest_queue>>
destVars == <<destinations, release_destinations>>
queueVars == <<repo_queue, unfinished, enq_log>>
starVars == <<star_pc, star_events, star_new, star_mode, cycle>>
relVars == <<rel_pc, rel_pending, rel_last>>
runVars == <<stop_event, phase, stop_mark>>
workerVars == <<wpc, is_first_item_in_batch, notification_type,
                repo_full_name, targets, media_group, deq_log, ack_log,
                send_last, since_idle, handling>>
trackVars == <<tracked_list, track_flip, held>>
retryVars == <<retry_pc, attempt, retry_result, retry_log>>
mediaVars == <<media_pc, media_in, media_out, probe_log, all_media_urls>>
digestVars == <<clock, db_lock, digest_job>>
loopVars == <<loop_pc, settings_changed, cancel_requested, monitoring_paused, token_stored, loop_log>>
accountVars == <<starred>>

vars == <<dbStarVars, release_state, destVars, queueVars, starVars, relVars,
          runVars, workerVars, trackVars, retryVars, mediaVars, digestVars,
          loopVars, accountVars>>

\* ---------------------------------------------------------------- helpers
Range(s) == {s[i] : i \in 1..Len(s)}

RECURSIVE Reverse(_)
\* list.reverse()
Reverse(s) == IF s = <<>> THEN <<>> ELSE Append(Reverse(Tail(s)), Head(s))

\* datetime.isoformat(): a fixed-width digit string, most significant first
isoformat(t) == <<(t \div 4) % 2, (t \div 2) % 2, t % 2>>

RECURSIVE StrGT(_, _)
\* Python's a > b on str: lexicographic, a proper prefix is smaller
StrGT(a, b) ==
    IF a = <<>> THEN FALSE
    ELSE IF b = <<>> THEN TRUE
    ELSE IF Head(a) # Head(b) THEN Head(a) > Head(b)
    ELSE StrGT(Tail(a), Tail(b))

\* the starred events the remote API can return: at most one page,
\* sorted by creation time, newest first (sort=created&direction=desc)
Pages ==
    {s \in UNION {[1..n -> [starred_at : 0..MaxTs, full_name : Repos]] :
                     n \in 0..MaxPage} :
        \A i \in 1..(Len(s) - 1) : s[i].starred_at >= s[i + 1].starred_at}

\* ------------------------------------------------------------ asyncio.Queue
\* the star monitor puts event.repository.full_name and the digest job puts
\* repo_full_name, both a bare str; the release monitor puts the 2-tuple
\* ("release", repo_name)
StrItem(r, n) == [shape |-> "str", kind |-> "", repo |-> r, seq |-> n]
TupleItem(k, r, n) == [shape |-> "tuple", kind |-> k, repo |-> r, seq |-> n]

\* --------------------------------------------------------------- database
\* the repo_full_name column of a list of digest_queue rows
RepoNames(rows) == [i \in 1..Len(rows) |-> rows[i].repo_full_name]

\* an insert that adds a row whether or not the repository has one
add_repo_to_digest_again(q, r, now) ==
    Append(q, [repo_full_name |-> r, added_at |-> now])

\* add_repo_to_digest: INSERT OR IGNORE on a UNIQUE column; the rows are kept
\* in the order of their insertion, added_at is CURRENT_TIMESTAMP
add_repo_to_digest(q, r, now) ==
    IF r \in Range(RepoNames(q)) THEN q
    ELSE Append(q, [repo_full_name |-> r, added_at |-> now])

\* SELECT repo_full_name FROM digest_queue ORDER BY added_at ASC: every order
\* of the rows that is ascending in added_at; rows of one second come in an
\* order the query does not fix
SelectDigestQueue(q) ==
    {[i \in 1..Len(q) |-> q[f[i]]] :
        f \in {g \in [1..Len(q) -> 1..Len(q)] :
                  /\ \A i, j \in 1..Len(q) : i # j => g[i] # g[j]
                  /\ \A i \in 1..(Len(q) - 1) :
                        q[g[i]].added_at <= q[g[i + 1]].added_at}}

\* DELETE FROM digest_queue, executed `if repo_list`
DeleteDigestQueue(q, repo_list) == IF repo_list # <<>> THEN <<>> ELSE q

\* a lock that everyone finds free
LockFree_always(lock) == TRUE

\* `async with self._write_lock` can be entered
LockFree(lock) == lock = ""

\* get_repository_release_state: the stored id of the repository, or None
get_repository_release_state(st, r) == st[r]

\* update_repository_release_state: insert or overwrite the repository's row
update_repository_release_state(st, r, v) == [st EXCEPT ![r] = v]

\* ------------------------------------------------------------ star monitor
\* a first-run test that never holds
IsFirstRun_never(last) == FALSE

\* `if not last_check_timestamp`
IsFirstRun(last) == last = <<>>

\* a marker taken from the last event of the page
NewestTimestamp_oldest(events) == isoformat(events[Len(events)].starred_at)

\* starred_events[0].starred_at.isoformat()
NewestTimestamp(events) == isoformat(events[1].starred_at)

\* a filter that also keeps the events at the marker itself
IsNewStar_orEqual(event, last) ==
    isoformat(event.starred_at) = last \/ StrGT(isoformat(event.starred_at), last)

\* `event.starred_at.isoformat() > last_check_timestamp`
IsNewStar(event, last) == StrGT(isoformat(event.starred_at), last)

RECURSIVE NewStarredEvents(_, _)
\* [event for event in starred_events if <IsNewStar>]
NewStarredEvents(events, last) ==
    IF events = <<>> THEN <<>>
    ELSE IF IsNewStar(Head(events), last)
         THEN <<Head(events)>> \o NewStarredEvents(Tail(events), last)
         ELSE NewStarredEvents(Tail(events), last)

\* `if digest_mode == "off"`: instant notification, else digest queue
IsInstantMode(mode) == mode = "off"

NoCycle == [status |-> "none", marker0 |-> <<>>, events |-> <<>>,
            mode |-> "off", handed |-> <<>>]

\* _check_for_new_stars up to the hand-over loop: fetch, baseline, filter
StarFetchStep(events) ==
    /\ star_pc = "wait"
    /\ IF events = <<>>
       THEN /\ cycle' = [NoCycle EXCEPT !.status = "empty",
                                        !.marker0 = last_check_timestamp]
            /\ UNCHANGED <<last_check_timestamp, star_pc, star_events,
                           star_new, star_mode>>
       ELSE IF IsFirstRun(last_check_timestamp)
       THEN /\ last_check_timestamp' = NewestTimestamp(events)
            /\ cycle' = [NoCycle EXCEPT !.status = "baseline",
                                        !.marker0 = last_check_timestamp,
                                        !.events = events,
                                        !.mode = digest_mode]
            /\ UNCHANGED <<star_pc, star_events, star_new, star_mode>>
       ELSE IF NewStarredEvents(events, last_check_timestamp) = <<>>
       THEN /\ cycle' = [NoCycle EXCEPT !.status = "nonew",
                                        !.marker0 = last_check_timestamp,
                                        !.events = events]
            /\ UNCHANGED <<last_check_timestamp, star_pc, star_events,
                           star_new, star_mode>>
       ELSE /\ star_pc' = "handover"
            /\ star_events' = events
            /\ star_new' = Reverse(NewStarredEvents(events, last_check_timestamp))
            /\ star_mode' = digest_mode
            /\ cycle' = [NoCycle EXCEPT !.status = "running",
                                        !.marker0 = last_check_timestamp,
                                        !.events = events,
                                        !.mode = digest_mode]
            /\ UNCHANGED last_check_timestamp
    /\ UNCHANGED <<digest_mode, digest_queue, release_state, destVars,
                   queueVars, relVars, runVars, workerVars,
                   trackVars, retryVars, mediaVars, accountVars, digestVars>>

\* the same step where the loop around it is not looked at
StarFetch(events) == StarFetchStep(events) /\ UNCHANGED loopVars

\* one iteration of `for event in new_starred_events`
StarHandOver ==
    /\ star_pc = "handover"
    /\ star_new # <<>>
    /\ LET event == Head(star_new) IN
       IF IsInstantMode(star_mode)
       THEN /\ Len(enq_log) < MaxEnq
            /\ LET item == StrItem(event.full_name, Len(enq_log) + 1) IN
               /\ repo_queue' = Append(repo_queue, item)
               /\ enq_log' = Append(enq_log, item)
            /\ unfinished' = unfinished + 1
            /\ cycle' = [cycle EXCEPT !.handed =
                            Append(@, [event |-> event, sink |-> "queue"])]
            /\ UNCHANGED digest_queue
       ELSE /\ LockFree(db_lock)
            /\ digest_queue' = add_repo_to_digest(digest_queue,
                                                  event.full_name, clock)
            /\ cycle' = [cycle EXCEPT !.handed =
                            Append(@, [event |-> event, sink |-> "digest"])]
            /\ UNCHANGED <<repo_queue, enq_log, unfinished>>
    /\ star_new' = Tail(star_new)
    /\ UNCHANGED <<last_check_timestamp, digest_mode, release_state,
                   destVars, star_pc, star_events, star_mode, relVars,
                   runVars, workerVars,
                   trackVars, retryVars, mediaVars,
                   accountVars, digestVars, loopVars>>

\* the update_last_check_timestamp call that ends a cycle with new stars
StarCommit ==
    /\ star_pc = "handover"
    /\ star_new = <<>>
    /\ last_check_timestamp' = NewestTimestamp(star_events)
    /\ star_pc' = "wait"
    /\ star_events' = <<>>
    /\ star_mode' = "off"
    /\ cycle' = [cycle EXCEPT !.status = "ok"]
    /\ UNCHANGED <<digest_mode, digest_queue, release_state, destVars,
                   queueVars, star_new, relVars, runVars, workerVars,
                   trackVars, retryVars, mediaVars,
                   accountVars, digestVars, loopVars>>

\* a database call of the hand-over loop or the final update raises: the
\* except clauses of _check_for_new_stars log it and the cycle ends
StarFail ==
    /\ star_pc = "handover"
    /\ star_new = <<>> \/ ~IsInstantMode(star_mode)
    /\ star_pc' = "wait"
    /\ star_events' = <<>>
    /\ star_new' = <<>>
    /\ star_mode' = "off"
    /\ cycle' = [cycle EXCEPT !.status = "failed"]
    /\ UNCHANGED <<dbStarVars, release_state, destVars, queueVars, relVars,
                   runVars, workerVars,
                   trackVars, retryVars, mediaVars,
                   accountVars, digestVars, loopVars>>

\* the page get_authenticated_user_starred_events returns: the newest
\* per_page stars of the account, newest first
StarredPage(stars) ==
    [i \in 1..(IF Len(stars) < MaxPage THEN Len(stars) ELSE MaxPage) |->
        [starred_at |-> stars[i].starred_at, full_name |-> stars[i].full_name]]

\* the user stars a repository that is not starred: GitHub stamps the star
\* with the current second; `after` keeps whether the monitor had its
\* baseline by then
UserStars(r) ==
    /\ \A i \in 1..Len(starred) : starred[i].full_name # r
    /\ starred' = <<[starred_at |-> clock, full_name |-> r,
                     after |-> ~IsFirstRun(last_check_timestamp)]>>
                  \o starred
    /\ UNCHANGED <<dbStarVars, release_state, destVars, queueVars, starVars,
                   relVars, runVars, workerVars, trackVars, retryVars,
                   mediaVars, digestVars, loopVars>>

\* --------------------------------------------------------- digest scheduler
RECURSIVE DigestItems(_, _)
\* the items `for repo_full_name in queued_repos: put(repo_full_name)` puts
DigestItems(repos, n) ==
    IF repos = <<>> THEN <<>>
    ELSE <<StrItem(Head(repos), n + 1)>> \o DigestItems(Tail(repos), n + 1)

NoJob == [pc |-> "idle", kind |-> "", mode |-> "", repo_list |-> <<>>]

\* _send_digest after get_and_clear_digest_queue returned queued_repos: one
\* put per drained repository; the queue is unbounded, so no put waits
PutQueuedRepos(queued_repos) ==
    /\ Len(enq_log) + Len(queued_repos) <= MaxEnq
    /\ repo_queue' = repo_queue \o DigestItems(queued_repos, Len(enq_log))
    /\ enq_log' = enq_log \o DigestItems(queued_repos, Len(enq_log))
    /\ unfinished' = unfinished + Len(queued_repos)

\* _send_digest run with no other task in between
SendDigest ==
    /\ LockFree(db_lock)
    /\ \E repo_list \in SelectDigestQueue(digest_queue) :
          /\ digest_queue' = DeleteDigestQueue(digest_queue, repo_list)
          /\ PutQueuedRepos(RepoNames(repo_list))

\* the test `if await self.db.get_digest_mode() == "daily"` (and "weekly")
\* of a job of cadence kind
ModeMatches_always(kind, mode) == TRUE
ModeMatches(kind, mode) == mode = kind

\* send_daily_digest, the cron job of 21:00 UTC
SendDailyDigest ==
    /\ phase # "closed"
    /\ IF ModeMatches("daily", digest_mode)
       THEN SendDigest
       ELSE UNCHANGED <<digest_queue, repo_queue, enq_log, unfinished>>
    /\ UNCHANGED <<last_check_timestamp, digest_mode, release_state,
                   destVars, starVars, relVars, runVars, workerVars,
                   trackVars, retryVars, mediaVars,
                   accountVars, digestVars, loopVars>>

\* send_weekly_digest, the cron job of Sunday 21:00 UTC
SendWeeklyDigest ==
    /\ phase # "closed"
    /\ IF ModeMatches("weekly", digest_mode)
       THEN SendDigest
       ELSE UNCHANGED <<digest_queue, repo_queue, enq_log, unfinished>>
    /\ UNCHANGED <<last_check_timestamp, digest_mode, release_state,
                   destVars, starVars, relVars, runVars, workerVars,
                   trackVars, retryVars, mediaVars,
                   accountVars, digestVars, loopVars>>

\* the same jobs statement by statement, as the other tasks see them.
\* send_daily_digest / send_weekly_digest up to the mode test: a job whose
\* mode does not match ends here
DigestJobFire(kind) ==
    /\ phase # "closed"
    /\ digest_job.pc = "idle"
    /\ digest_job' = [pc |-> IF ModeMatches(kind, digest_mode)
                              THEN "select" ELSE "idle",
                      kind |-> kind, mode |-> digest_mode,
                      repo_list |-> <<>>]
    /\ UNCHANGED <<dbStarVars, release_state, destVars, queueVars, starVars,
                   relVars, runVars, workerVars, trackVars, retryVars,
                   mediaVars, accountVars, loopVars, clock, db_lock>>

\* get_and_clear_digest_queue: the lock is taken and the SELECT is answered
DigestJobSelect(repo_list) ==
    /\ digest_job.pc = "select"
    /\ LockFree(db_lock)
    /\ repo_list \in SelectDigestQueue(digest_queue)
    /\ db_lock' = "digest_job"
    /\ digest_job' = [digest_job EXCEPT !.pc = "delete",
                                        !.repo_list = repo_list]
    /\ UNCHANGED <<dbStarVars, release_state, destVars, queueVars, starVars,
                   relVars, runVars, workerVars, trackVars, retryVars,
                   mediaVars, accountVars, loopVars, clock>>

\* get_and_clear_digest_queue, the DELETE and the commit; the lock is given
\* back, the list returned and _send_digest puts its repositories
DigestJobDelete ==
    /\ digest_job.pc = "delete"
    /\ digest_queue' = DeleteDigestQueue(digest_queue, digest_job.repo_list)
    /\ PutQueuedRepos(RepoNames(digest_job.repo_list))
    /\ db_lock' = ""
    /\ digest_job' = [digest_job EXCEPT !.pc = "idle"]
    /\ UNCHANGED <<last_check_timestamp, digest_mode, release_state,
                   destVars, starVars, relVars, runVars, workerVars,
                   trackVars, retryVars, mediaVars,
                   accountVars, loopVars, clock>>

\* a second passes
Tick ==
    /\ clock < MaxClock
    /\ clock' = clock + 1
    /\ UNCHANGED <<dbStarVars, release_state, destVars, queueVars, starVars,
                   relVars, runVars, workerVars, trackVars, retryVars,
                   mediaVars, accountVars, loopVars, db_lock, digest_job>>

\* --------------------------------------------------------- release monitor
\* repo_data.repository.latest_release.nodes[0].tag_name of release n
tag_name(n) == <<"tag", n>>

\* a comparison that takes every fetched release for a new one
IsNewRelease_always(known_tag, latest_tag) == TRUE

\* `if known_tag != latest_tag`
IsNewRelease(known_tag, latest_tag) == known_tag # latest_tag

NoCheck == [repo |-> "", known |-> <<>>, latest |-> <<>>, outcome |-> "none",
            before |-> 0]

\* _check_for_new_releases: the member repositories scraped from the tracked
\* list, one check task per member handed to gather()
ReleaseCycleStartStep(members) ==
    /\ rel_pc = "wait"
    /\ tracked_list # ""
    /\ members # {}
    /\ rel_pc' = "checking"
    /\ rel_pending' = members
    /\ UNCHANGED <<dbStarVars, release_state, destVars, queueVars, starVars,
                   rel_last, runVars, workerVars,
                   trackVars, retryVars, mediaVars, accountVars, digestVars>>

\* the same step where the loop around it is not looked at
ReleaseCycleStart(members) ==
    ReleaseCycleStartStep(members) /\ UNCHANGED loopVars

\* check tasks that end with the first one that fails
RemainingChecks_abort(pending, repo_name, outcome) ==
    IF outcome = "ok" THEN pending \ {repo_name} ELSE {}

\* the tasks of gather() that are left when the check of repo_name ends: its
\* except clauses log every Exception and the task returns, so that gather()
\* sees no failure and the other tasks run on
RemainingChecks(pending, repo_name, outcome) == pending \ {repo_name}

\* _process_single_repo_release(repo_name).  latest = 0: the repository has no
\* release, or the query was not answered: without a stored token
\* _execute_graphql_query raises GitHubAPIError, which
\* get_repository_data_for_notification turns into None; outcome says which
\* call raised ("fetch": before the comparison, "update": the final database
\* write), "ok" when none did
ProcessSingleRepoRelease(repo_name, latest, outcome) ==
    /\ rel_pc = "checking"
    /\ repo_name \in rel_pending
    /\ (outcome # "fetch" /\ latest # 0) => token_stored
    /\ LET known_tag == get_repository_release_state(release_state, repo_name)
           latest_tag == tag_name(latest)
           item == TupleItem("release", repo_name, Len(enq_log) + 1)
           checked == outcome # "fetch" /\ latest # 0
           isNew == checked /\ IsNewRelease(known_tag, latest_tag)
       IN
       /\ isNew => Len(enq_log) < MaxEnq
       /\ IF isNew
          THEN /\ repo_queue' = Append(repo_queue, item)
               /\ enq_log' = Append(enq_log, item)
               /\ unfinished' = unfinished + 1
          ELSE UNCHANGED <<repo_queue, enq_log, unfinished>>
       /\ IF checked /\ outcome = "ok"
          THEN /\ release_state' = update_repository_release_state(
                                       release_state, repo_name, latest_tag)
               /\ held' = [held EXCEPT ![repo_name] = @ \cup {latest_tag}]
          ELSE UNCHANGED <<release_state, held>>
       /\ rel_last' = [repo |-> repo_name,
                       known |-> known_tag,
                       latest |-> IF latest = 0 THEN <<>> ELSE latest_tag,
                       outcome |-> outcome,
                       before |-> Len(enq_log)]
    /\ rel_pending' = RemainingChecks(rel_pending, repo_name, outcome)
    /\ rel_pc' = IF rel_pending' = {} THEN "wait" ELSE "checking"
    /\ UNCHANGED <<dbStarVars, destVars, starVars, runVars, workerVars,
                   tracked_list, track_flip, retryVars, mediaVars,
                   accountVars, digestVars,
                   loopVars>>

\* ------------------------------------------------------ notification worker
\* `notification_type, repo_full_name = item`: a 2-tuple unpacks; a bare str
\* unpacks only if it has exactly two characters, and "owner/name" has three
\* or more, so the assignment raises ValueError for every str item
CanUnpack(item) == item.shape = "tuple"

\* a get that hands out the item put last
QueueGet_last(q) == q[Len(q)]

\* queue.get(): the item at the head of the queue
QueueGet(q) == Head(q)

\* top of `while not stop_event.is_set()`
LoopTop == IF stop_event THEN "exited" ELSE "get"

\* `finally: if repo_full_name: queue.task_done()`
TaskDone(name, item) ==
    IF name # ""
    THEN /\ unfinished' = unfinished - 1
         /\ ack_log' = Append(ack_log, item.seq)
    ELSE UNCHANGED <<unfinished, ack_log>>

NoSend == [target |-> "", item |-> 0, in_star |-> FALSE, in_release |-> FALSE,
           media |-> "none", download |-> "none", attempts |-> <<>>]

NoEvent == [item |-> 0, type |-> "", pos |-> 0, slept |-> FALSE,
            snapshot |-> "", ai_calls |-> 0, resolved |-> "",
            media |-> "none", star_set |-> {}, release_set |-> {},
            dests |-> {}, attempted |-> {}, ended |-> ""]

\* an exit of the loop after the except clause
AfterException_exit == "exited"

\* `except Exception as e: logger.error(...)`, then finally, then the loop
\* condition is tested again
AfterException == LoopTop

\* wait_for(queue.get(), 1.0) returns an item, which is then unpacked
WorkerGet ==
    /\ wpc = "get"
    /\ phase = "running"
    /\ repo_queue # <<>>
    /\ LET item == QueueGet(repo_queue) IN
       /\ repo_queue' = Tail(repo_queue)
       /\ deq_log' = Append(deq_log, item)
       /\ IF CanUnpack(item)
          THEN /\ notification_type' = item.kind
               /\ repo_full_name' = item.repo
               /\ wpc' = IF is_first_item_in_batch THEN "process" ELSE "sleep"
               /\ UNCHANGED <<unfinished, ack_log>>
          ELSE /\ notification_type' = ""
               /\ repo_full_name' = ""
               /\ TaskDone("", item)
               /\ wpc' = AfterException
       /\ handling' = [NoEvent EXCEPT
                       !.item = item.seq,
                       !.type = IF CanUnpack(item) THEN item.kind ELSE "",
                       !.pos = since_idle + 1,
                       !.ended = IF CanUnpack(item) THEN "" ELSE "unpack"]
    /\ since_idle' = since_idle + 1
    /\ send_last' = NoSend
    /\ UNCHANGED <<dbStarVars, release_state, destVars, enq_log, starVars,
                   relVars, runVars, is_first_item_in_batch, targets,
                   media_group, trackVars, retryVars, mediaVars,
                   accountVars, digestVars,
                   loopVars>>

\* wait_for(queue.get(), 1.0) raises TimeoutError on an empty queue
WorkerTimeout ==
    /\ wpc = "get"
    /\ phase = "running"
    /\ repo_queue = <<>>
    /\ is_first_item_in_batch' = TRUE
    /\ wpc' = LoopTop
    /\ since_idle' = 0
    /\ UNCHANGED <<dbStarVars, release_state, destVars, queueVars, starVars,
                   relVars, runVars, notification_type, repo_full_name,
                   targets, media_group, deq_log, ack_log, send_last, handling,
                   trackVars, retryVars, mediaVars,
                   accountVars, digestVars, loopVars>>

\* `await asyncio.sleep(5)` before an item that is not first in its batch
WorkerSleep ==
    /\ wpc = "sleep"
    /\ phase = "running"
    /\ wpc' = "process"
    /\ handling' = [handling EXCEPT !.slept = TRUE]
    /\ UNCHANGED <<dbStarVars, release_state, destVars, queueVars, starVars,
                   relVars, runVars, is_first_item_in_batch,
                   notification_type, repo_full_name, targets, media_group,
                   deq_log, ack_log, send_last, since_idle, trackVars,
                   retryVars, mediaVars, accountVars, digestVars, loopVars>>

\* the item of the worker's current iteration
CurrentItem == deq_log[Len(deq_log)]

\* process_and_send returned: `is_first_item_in_batch = False`, then finally
WorkerItemDone ==
    /\ is_first_item_in_batch' = FALSE
    /\ TaskDone(repo_full_name, CurrentItem)
    /\ notification_type' = ""
    /\ repo_full_name' = ""
    /\ targets' = <<>>
    /\ media_group' = "none"
    /\ wpc' = LoopTop

\* the destinations a payload of the given type is sent to
PayloadDestinations(type) ==
    IF type = "star" THEN destinations ELSE release_destinations

\* what the payload preparation finds: ai = a summarizer is configured and
\* get_readme returned text; summary_on, media_on = the two feature flags;
\* candidates = extract_media_from_readme found URLs; survivors = the list
\* _build_media_group made of the URLs select_preview_media chose ("none" when
\* it chose none or none passed validation); scraped = the page has a release
\* node or is the repository page and scrape_social_preview_image found an
\* og:image.  A field that the code does not get to read has its default
PrepInputs(type) ==
    {p \in [ai : BOOLEAN, summary_on : BOOLEAN, media_on : BOOLEAN,
            candidates : BOOLEAN, scraped : BOOLEAN,
            survivors : {"none", "photo", "photo_group", "video_group"}] :
        /\ (type # "star" \/ ~p.ai) => (~p.summary_on /\ ~p.media_on)
        /\ ~p.media_on => ~p.candidates
        /\ ~p.candidates => p.survivors = "none"
        /\ p.survivors # "none" => ~p.scraped}

\* the preparation that finds nothing
NoPrep == [ai |-> FALSE, summary_on |-> FALSE, media_on |-> FALSE,
           candidates |-> FALSE, survivors |-> "none", scraped |-> FALSE]

\* is_ai_summary_enabled(): the stored summary flag
is_ai_summary_enabled(p) == p.summary_on

\* is_ai_media_selection_enabled(): the stored media-selection flag
is_ai_media_selection_enabled(p) == p.media_on

\* the calls of summarize_readme and select_preview_media one preparation makes
EnrichmentCalls(type, p) ==
    IF type # "star" THEN 0
    ELSE (IF p.ai /\ is_ai_summary_enabled(p) THEN 1 ELSE 0)
         + (IF p.ai /\ is_ai_media_selection_enabled(p) /\ p.candidates
            THEN 1 ELSE 0)

\* _get_notification_media, attempt 1: the media group built from the URLs
\* the AI selected
AISelectedMedia(p) ==
    IF p.ai /\ is_ai_media_selection_enabled(p) /\ p.candidates
    THEN p.survivors ELSE "none"

\* payload["media_group"]: for a star the AI-selected group, else the social
\* preview image, else the empty list; for a release the preview image of the
\* release page or the empty list
NotificationMedia(type, p) ==
    IF type = "star" /\ AISelectedMedia(p) # "none" THEN AISelectedMedia(p)
    ELSE IF p.scraped THEN "photo"
    ELSE "none"

\* which source the payload's media came from
ResolvedBy(type, p) ==
    IF type = "star" /\ AISelectedMedia(p) # "none" THEN "ranked"
    ELSE IF p.scraped THEN "preview"
    ELSE "nothing"

Orderings(S) == {q \in [1..Cardinality(S) -> S] : Range(q) = S}

\* a test that takes every snapshot for a usable one
SnapshotMissing_never(snapshot) == FALSE

\* `if not repo_data or not repo_data.repository`
SnapshotMissing(snapshot) == snapshot = "absent"

\* process_and_send up to the fan-out loop: the snapshot fetch, the branch on
\* the notification type and the payload
ProcessAndSend(snapshot, prep, order) ==
    /\ wpc = "process"
    /\ phase = "running"
    /\ IF SnapshotMissing(snapshot)
          \/ notification_type \notin {"star", "release"}
       THEN /\ WorkerItemDone
            /\ handling' = [handling EXCEPT !.snapshot = snapshot,
                                      !.ended = "returned"]
       ELSE LET ev == [handling EXCEPT
                          !.snapshot = snapshot,
                          !.ai_calls = EnrichmentCalls(notification_type, prep),
                          !.resolved = ResolvedBy(notification_type, prep),
                          !.media = NotificationMedia(notification_type, prep),
                          !.star_set = destinations,
                          !.release_set = release_destinations,
                          !.dests = Range(order)]
            IN  IF order = <<>>
                THEN /\ WorkerItemDone
                     /\ handling' = [ev EXCEPT !.ended = "returned"]
                ELSE /\ targets' = order
                     /\ media_group' = NotificationMedia(notification_type,
                                                         prep)
                     /\ wpc' = "send"
                     /\ handling' = ev
                     /\ UNCHANGED <<unfinished, ack_log,
                                    is_first_item_in_batch,
                                    notification_type, repo_full_name>>
    /\ UNCHANGED <<dbStarVars, release_state, destVars, repo_queue, enq_log,
                   starVars, relVars, runVars, deq_log, send_last,
                   since_idle, trackVars, retryVars, mediaVars,
                   accountVars, digestVars,
                   loopVars>>

\* an exception leaves process_and_send: `except Exception` logs it, then the
\* finally clause; `is_first_item_in_batch = False` is not reached
ExceptionEscapes ==
    /\ TaskDone(repo_full_name, CurrentItem)
    /\ notification_type' = ""
    /\ repo_full_name' = ""
    /\ targets' = <<>>
    /\ media_group' = "none"
    /\ wpc' = AfterException
    /\ UNCHANGED is_first_item_in_batch

\* process_and_send raises (the snapshot fetch, the payload preparation or a
\* send lets an exception escape): `except Exception` logs it, then finally
WorkerItemRaised ==
    /\ wpc \in {"process", "send"}
    /\ phase = "running"
    /\ ExceptionEscapes
    /\ handling' = [handling EXCEPT !.ended = "raised"]
    /\ UNCHANGED <<dbStarVars, release_state, destVars, repo_queue, enq_log,
                   starVars, relVars, runVars, deq_log, send_last,
                   since_idle, trackVars, retryVars, mediaVars,
                   accountVars, digestVars,
                   loopVars>>

\* ------------------------------------------------------- _send_notification
\* what one call of the messaging platform can answer: success, or a
\* TelegramAPIError whose lowered message contains a permanent-error
\* substring, a media-content substring, both, or neither
SendResults == {"ok", "permanent", "content", "permanent_content", "other"}

\* a classification that takes no error for a permanent one
IsPermanentError_never(e) == FALSE

\* any(p_error in error_message for p_error in PERMANENT_TELEGRAM_ERRORS)
IsPermanentError(e) == e \in {"permanent", "permanent_content"}

\* a classification that takes no error for a media-content error
IsMediaContentError_never(e) == FALSE

\* any(media_error in error_message for media_error in media_content_errors)
IsMediaContentError(e) == e \in {"content", "permanent_content"}

\* a primary attempt that sends the text whatever the media
PrimaryCall_text(media) == "send_message"

\* the call of the primary attempt, by payload media
PrimaryCall(media) ==
    IF media = "none" THEN "send_message"
    ELSE IF media = "photo" THEN "send_photo"
    ELSE "send_media_group"

\* `media_group and isinstance(media_group[0], InputMediaPhoto)`
FirstIsPhoto(media) == media \in {"photo", "photo_group"}

\* one call of the send chain.  preview: both send_message calls pass
\* disable_web_page_preview=False, a photo or media group has no such option;
\* caption: the caption or text argument, or the first item of the group
Attempt(call, how, result) ==
    [call |-> call, how |-> how, result |-> result,
     preview |-> call = "send_message",
     caption |-> IF call = "send_media_group" THEN "first_item"
                 ELSE "argument"]

\* a send chain that goes on to the text after an upload that succeeded
SendAttempts_noReturn(media, first, download, upload, text) ==
    LET primary == <<Attempt(PrimaryCall(media), "direct", first)>>
        proxy == IF FirstIsPhoto(media) /\ download
                 THEN <<Attempt("send_photo", "upload", upload)>>
                 ELSE <<>>
        fallback == <<Attempt("send_message", "text", text)>>
    IN  IF first = "ok" THEN primary
        ELSE IF IsPermanentError(first) THEN primary
        ELSE IF IsMediaContentError(first) THEN primary \o proxy \o fallback
        ELSE primary

\* the calls one _send_notification makes, in order, given the answer to
\* each call it gets to make and whether the download returned bytes
SendAttempts(media, first, download, upload, text) ==
    LET primary == <<Attempt(PrimaryCall(media), "direct", first)>>
        proxy == IF FirstIsPhoto(media) /\ download
                 THEN <<Attempt("send_photo", "upload", upload)>>
                 ELSE <<>>
        fallback == <<Attempt("send_message", "text", text)>>
    IN  IF first = "ok" THEN primary
        ELSE IF IsPermanentError(first) THEN primary
        ELSE IF IsMediaContentError(first)
             THEN IF proxy # <<>> /\ upload = "ok"
                  THEN primary \o proxy
                  ELSE primary \o proxy \o fallback
        ELSE primary

\* download_image_to_bytes(image_url, session): the bytes of the image (TRUE)
\* or nothing (FALSE)
download_image_to_bytes == BOOLEAN

\* the answers that matter to a call: a stage that is not reached gets none
Reaches(media, first, download, upload, text, how) ==
    \E i \in 1..Len(SendAttempts(media, first, download, upload, text)) :
        SendAttempts(media, first, download, upload, text)[i].how = how
DownloadAnswers(media, first) ==
    IF Reaches(media, first, TRUE, "other", "ok", "upload")
    THEN download_image_to_bytes ELSE {FALSE}
UploadAnswers(media, first, download) ==
    IF Reaches(media, first, download, "other", "ok", "upload")
    THEN SendResults ELSE {"ok"}
TextAnswers(media, first, download, upload) ==
    IF Reaches(media, first, download, upload, "ok", "text")
    THEN SendResults ELSE {"ok"}

\* whether the call removes target_id from both destination tables
RemovesDestination(first) == first # "ok" /\ IsPermanentError(first)

\* target_id.split("/")
Split(target_id) ==
    CASE target_id = "200/7" -> <<"200", "7">>
      [] target_id = "300/x" -> <<"300", "x">>
      [] OTHER -> <<target_id>>

\* the first statement of _send_notification, which no try encloses:
\* `int(target_id.split("/")[1]) if "/" in target_id else None`
ParseRaises(target_id) ==
    /\ Len(Split(target_id)) > 1
    /\ Split(target_id)[2] \notin
          {"0", "1", "2", "3", "4", "5", "6", "7", "8", "9"}

\* what the download of the first photo did in a call with these answers
DownloadOutcome(media, first, download) ==
    IF first # "ok" /\ ~IsPermanentError(first) /\ IsMediaContentError(first)
       /\ FirstIsPhoto(media)
    THEN IF download THEN "bytes" ELSE "failed"
    ELSE "none"

\* one iteration of `for target_id in payload["destinations"]`
SendNotification(first, download, upload, text) ==
    /\ wpc = "send"
    /\ phase = "running"
    /\ targets # <<>>
    /\ LET target_id == Head(targets)
           sent == [target |-> target_id, item |-> CurrentItem.seq,
                    in_star |-> target_id \in destinations,
                    in_release |-> target_id \in release_destinations,
                    media |-> media_group,
                    download |-> "none",
                    attempts |-> <<>>]
           ev == [handling EXCEPT !.attempted = @ \cup {target_id}]
       IN
       IF ParseRaises(target_id)
       THEN /\ send_last' = sent
            /\ handling' = [ev EXCEPT !.ended = "malformed_id"]
            /\ ExceptionEscapes
            /\ UNCHANGED destVars
       ELSE /\ send_last' =
                  [sent EXCEPT
                      !.download = DownloadOutcome(media_group, first, download),
                      !.attempts = SendAttempts(media_group, first, download,
                                                upload, text)]
            /\ IF RemovesDestination(first)
               THEN /\ destinations' = destinations \ {target_id}
                    /\ release_destinations' =
                           release_destinations \ {target_id}
               ELSE UNCHANGED destVars
            /\ IF Tail(targets) = <<>>
               THEN /\ WorkerItemDone
                    /\ handling' = [ev EXCEPT !.ended = "returned"]
               ELSE /\ targets' = Tail(targets)
                    /\ handling' = ev
                    /\ UNCHANGED <<unfinished, ack_log, is_first_item_in_batch,
                                   notification_type, repo_full_name,
                                   media_group, wpc>>
    /\ UNCHANGED <<dbStarVars, release_state, repo_queue, enq_log, starVars,
                   relVars, runVars, deq_log, since_idle, trackVars,
                   retryVars, mediaVars, accountVars, digestVars, loopVars>>

\* ---------------------------------------------------------------- shutdown
\* run(), finally: stop_event.set() and task.cancel() for the worker task
BeginShutdown ==
    /\ phase = "running"
    /\ stop_event' = TRUE
    /\ phase' = "stopping"
    /\ stop_mark' = Len(enq_log)
    /\ UNCHANGED <<dbStarVars, release_state, destVars, queueVars, starVars,
                   relVars, workerVars, trackVars, retryVars, mediaVars,
                   accountVars,
                   digestVars, loopVars>>

\* the worker task receives CancelledError at its current await; it is not an
\* Exception, so only the finally clause runs and the task ends
WorkerCancelled ==
    /\ phase = "stopping"
    /\ wpc # "exited"
    /\ IF wpc = "get"
       THEN UNCHANGED <<unfinished, ack_log, handling>>
       ELSE /\ TaskDone(repo_full_name, CurrentItem)
            /\ handling' = [handling EXCEPT !.ended = "cancelled"]
    /\ wpc' = "exited"
    /\ UNCHANGED <<dbStarVars, release_state, destVars, repo_queue, enq_log,
                   starVars, relVars, runVars, is_first_item_in_batch,
                   notification_type, repo_full_name, targets, media_group,
                   deq_log, send_last, since_idle, trackVars, retryVars,
                   mediaVars, accountVars, digestVars, loopVars>>

\* run(), finally, after gather(): the monitors and the scheduler are
\* stopped and the API client, the database and the bot session are closed
Teardown ==
    /\ phase = "stopping"
    /\ wpc = "exited"
    /\ phase' = "closed"
    /\ star_pc' = "stopped"
    /\ rel_pc' = "stopped"
    /\ UNCHANGED <<dbStarVars, release_state, destVars, queueVars,
                   star_events, star_new, star_mode, cycle, rel_pending,
                   rel_last, stop_event, stop_mark, workerVars, trackVars,
                   retryVars, mediaVars, accountVars, digestVars, loopVars>>

\* --------------------------------------------------- tracking-list handler
ListSlugs == {"stars", "tools"}

\* the release node id the batch query returns for release n
node_id(n) == <<"id", n>>

\* a clear that deletes no row
clear_release_states_keep(st) == st

\* clear_release_states: DELETE FROM repository_release_state
clear_release_states(st) == [r \in DOMAIN st |-> <<>>]

\* the rows after `gather(update_repository_release_id(repo, id) for repo, id
\* in latest_releases.items())`: fetched[r] = 0 is a repository without a
\* release, which the result dict does not hold
Baselined(st, members, fetched) ==
    [r \in DOMAIN st |-> IF r \in members /\ fetched[r] # 0
                         THEN node_id(fetched[r]) ELSE st[r]]

\* what one /set_tracking_list command meets: where an answer is never read
\* (no login, no members, a failed batch query) it is left at one value
TrackingInputs ==
    {i \in [list_slug : ListSlugs, login_ok : BOOLEAN,
            members : SUBSET Repos, fetch_ok : BOOLEAN,
            fetched : [Repos -> 0..MaxBase]] :
        /\ ~i.login_ok => i.list_slug = "stars" /\ i.members = {} 
        /\ i.members = {} => ~i.fetch_ok
        /\ \A r \in Repos :
              (~i.fetch_ok \/ r \notin i.members) => i.fetched[r] = 0}

\* handle_set_tracking_list: login_ok = get_viewer_login returned a login,
\* members = the repositories scraped from the list page, fetch_ok = the batch
\* query returned a dict, fetched = the release it holds per repository
HandleSetTrackingList(list_slug, login_ok, members, fetch_ok, fetched) ==
    /\ phase = "running"
    /\ track_flip' = ~track_flip
    /\ IF ~login_ok
       THEN UNCHANGED <<release_state, tracked_list, held>>
       ELSE /\ tracked_list' = list_slug
            /\ release_state' =
                  IF members # {} /\ fetch_ok
                  THEN Baselined(clear_release_states(release_state),
                                 members, fetched)
                  ELSE clear_release_states(release_state)
            /\ held' = [r \in Repos |->
                          IF release_state'[r] # <<>>
                          THEN held[r] \cup {release_state'[r]} ELSE held[r]]
    /\ UNCHANGED <<dbStarVars, destVars, queueVars, starVars, relVars,
                   runVars, workerVars, retryVars, mediaVars,
                   accountVars, digestVars,
                   loopVars>>

\* ------------------------------------------------------ _build_media_group
\* a URL as the parts the code looks for in it
CandidateUrls ==
    {<<"github.com/", "/assets/", "1">>,
     <<"github.com/", "/assets/", ".mp4">>,
     <<"github.com/", "raw", "shot">>,
     <<"cdn", "shot">>,
     <<"cdn", "Logo">>}

\* the URLs of one README and of the answers about it
RankedUrls ==
    {<<"github.com/", "/assets/", "1">>, <<"cdn", "shot">>, <<"cdn", "Logo">>}

\* str.lower() of one part of a URL, or of a header value
LowerPart(w) ==
    CASE w = "Logo" -> "logo"
      [] w = "Image/PNG" -> "image/png"
      [] OTHER -> w

\* `part in url`
Contains(url, part) == \E i \in 1..Len(url) : url[i] = part

EXCLUDED_KEYWORDS ==
    {"badge", "sponsor", "donate", "logo", "gif", ".svg", "extension",
     "contributor", "shields.io", "badgen.net", "vercel.svg",
     "netlify.com/img/deploy", "app.codacy.com", "lgtm.com"}

\* an exclusion test that excludes nothing
is_url_excluded_never(url) == FALSE

\* is_url_excluded: any(kw in url.lower() for kw in EXCLUDED_KEYWORDS)
is_url_excluded(url) ==
    \E kw \in EXCLUDED_KEYWORDS :
       Contains([i \in 1..Len(url) |-> LowerPart(url[i])], kw)

\* `"github.com/" in url and "/assets/" in url`
IsTrustedAsset(url) == Contains(url, "github.com/") /\ Contains(url, "/assets/")

\* the probe of a URL that is never probed, and of one whose request raises
NoProbe(url) ==
    [raised |-> TRUE, status |-> 0, content_type |-> "", final |-> url]

\* what the HEAD request of get_media_info meets: it raises, or the response
\* has a status, a Content-Type header ("" when absent) and a final URL
ProbeAnswers(url) ==
    {NoProbe(url)}
    \cup [raised : {FALSE}, status : {200, 404},
          content_type : {"", "image/png", "Image/PNG", "video/mp4",
                          "text/html"},
          final : {url, <<"cdn", "badge">>}]

\* a probe that hands on the Content-Type header of any response
get_media_info_any_status(url, answer) ==
    IF answer.raised THEN <<"None", url>>
    ELSE <<LowerPart(answer.content_type), answer.final>>

\* get_media_info: (content_type, final_url); the content type is
\* response.headers.get("Content-Type", "").lower() when the status is 200
\* and None otherwise, the URL is str(response.url), or the URL asked for
\* when the request raised
get_media_info(url, answer) ==
    IF answer.raised THEN <<"None", url>>
    ELSE IF answer.status = 200
    THEN <<LowerPart(answer.content_type), answer.final>>
    ELSE <<"None", answer.final>>

\* the candidates a call can be given: a trusted one has no probe to answer,
\* a response that is not a 200 has the Content-Type of an error page
Candidates ==
    {c \in [url : CandidateUrls,
            answer : UNION {ProbeAnswers(u) : u \in CandidateUrls}] :
        /\ c.answer \in ProbeAnswers(c.url)
        /\ IsTrustedAsset(c.url) => c.answer = NoProbe(c.url)
        /\ c.answer.status = 404 => c.answer.content_type = "text/html"}

\* the positions of the URLs that go to get_media_info, in list order
RECURSIVE TasksWithContext(_, _)
TasksWithContext(urls, i) ==
    IF i > Len(urls) THEN <<>>
    ELSE IF IsTrustedAsset(urls[i].url) THEN TasksWithContext(urls, i + 1)
    ELSE <<i>> \o TasksWithContext(urls, i + 1)

\* the first loop: a trusted URL is appended at once, as a video by its
\* extension and else as a photo
RECURSIVE TrustedMedia(_, _)
TrustedMedia(urls, i) ==
    IF i > Len(urls) THEN <<>>
    ELSE IF IsTrustedAsset(urls[i].url)
    THEN <<[type |-> IF \E e \in {".mp4", ".webm", ".mov"} : Contains(urls[i].url, e)
                      THEN "video" ELSE "photo",
            media |-> urls[i].url, from |-> i]>>
         \o TrustedMedia(urls, i + 1)
    ELSE TrustedMedia(urls, i + 1)

\* the second loop, over the validation results
RECURSIVE ValidatedMedia(_, _)
ValidatedMedia(urls, tasks) ==
    IF tasks = <<>> THEN <<>>
    ELSE LET i == Head(tasks)
             result == get_media_info(urls[i].url, urls[i].answer)
             content_type == result[1]
             final_url == result[2]
             rest == ValidatedMedia(urls, Tail(tasks))
         IN  IF content_type = "None" \/ content_type = "" THEN rest
             ELSE IF is_url_excluded(final_url) THEN rest
             ELSE IF content_type = "video/mp4"
             THEN <<[type |-> "video", media |-> final_url, from |-> i]>>
                  \o rest
             ELSE IF content_type = "image/png"
             THEN <<[type |-> "photo", media |-> final_url, from |-> i]>>
                  \o rest
             ELSE rest

\* _build_media_group(urls)
BuildMediaGroup ==
    /\ media_pc = "idle"
    /\ media_pc' = "built"
    /\ media_out' = TrustedMedia(media_in, 1)
                    \o ValidatedMedia(media_in, TasksWithContext(media_in, 1))
    /\ probe_log' = TasksWithContext(media_in, 1)
    /\ UNCHANGED <<accountVars, dbStarVars, release_state, destVars, queueVars, starVars,
                   relVars, runVars, workerVars, trackVars, retryVars,
                   media_in, all_media_urls, digestVars, loopVars>>

\* the selection of the next call: the last one with one more URL, or none
NextSelections(urls) ==
    {<<>>} \cup {Append(urls, c) : c \in {x \in Candidates : Len(urls) < MaxUrls}}

\* select_preview_media returns the next selection
MediaNext(urls) ==
    /\ media_pc = "built"
    /\ media_pc' = "idle"
    /\ media_in' = urls
    /\ media_out' = <<>>
    /\ probe_log' = <<>>
    /\ UNCHANGED <<accountVars, dbStarVars, release_state, destVars, queueVars, starVars,
                   relVars, runVars, workerVars, trackVars, retryVars,
                   all_media_urls, digestVars, loopVars>>

\* select_preview_media(readme_content, media_urls): [] for no candidates,
\* no response, a JSONDecodeError or a ValidationError, and else
\* [item.url for item in validated_response.selected_media][:3].  The
\* response is what generate_content_async came to after the retries: none,
\* a text that is not JSON, JSON that is not a MediaSelectionResponse, or a
\* selected_media list of URLs, which are any strings
select_preview_media(media_urls, response) ==
    IF media_urls = {} THEN <<>>
    ELSE IF response.kind # "ok" THEN <<>>
    ELSE SubSeq(response.urls, 1,
                IF Len(response.urls) < 3 THEN Len(response.urls) ELSE 3)

\* _get_notification_media, attempt 1, up to the call of _build_media_group:
\* the URLs of the README go to the ranking call and what it returns is the
\* list _build_media_group gets; a probe finds a PNG or raises
GetNotificationMedia(urls, response, raised) ==
    /\ media_pc = "built"
    /\ media_pc' = "idle"
    /\ all_media_urls' = urls
    /\ LET selected_urls == select_preview_media(urls, response)
       IN  media_in' =
              [i \in 1..Len(selected_urls) |->
                 [url |-> selected_urls[i],
                  answer |-> IF raised \/ IsTrustedAsset(selected_urls[i])
                             THEN NoProbe(selected_urls[i])
                             ELSE [raised |-> FALSE, status |-> 200,
                                   content_type |-> "image/png",
                                   final |-> selected_urls[i]]]]
    /\ media_out' = <<>>
    /\ probe_log' = <<>>
    /\ UNCHANGED <<accountVars, dbStarVars, release_state, destVars, queueVars, starVars,
                   relVars, runVars, workerVars, trackVars, retryVars,
                   digestVars, loopVars>>

\* ------------------------------------------------------ _execute_with_retry
max_retries == 5
base_delay == 2

\* a handler that takes every exception for a quota error
IsQuotaExceeded_any(outcome) == outcome # "ok"

\* `except ResourceExhausted`
IsQuotaExceeded(outcome) == outcome = "quota"

\* a call of summarize_readme or select_preview_media enters the wrapper
RetryStart ==
    /\ retry_pc \in {"idle", "done"}
    /\ retry_pc' = "call"
    /\ attempt' = 0
    /\ retry_result' = <<>>
    /\ retry_log' = <<>>
    /\ UNCHANGED <<dbStarVars, release_state, destVars, queueVars, starVars,
                   relVars, runVars, workerVars, trackVars, mediaVars,
                   accountVars,
                   digestVars, loopVars>>

\* one iteration of `while attempt < self.max_retries`
RetryCall(outcome, response, jitter) ==
    /\ retry_pc = "call"
    /\ IF ~(attempt < max_retries)
       THEN /\ retry_pc' = "done"
            /\ retry_result' = <<>>
            /\ UNCHANGED <<attempt, retry_log>>
       ELSE IF outcome = "ok"
       THEN /\ retry_pc' = "done"
            /\ retry_result' = response
            /\ retry_log' = Append(retry_log, [outcome |-> outcome,
                                               response |-> response,
                                               delay |-> 0])
            /\ UNCHANGED attempt
       ELSE IF IsQuotaExceeded(outcome)
       THEN /\ attempt' = attempt + 1
            /\ IF attempt' >= max_retries
               THEN /\ retry_pc' = "done"
                    /\ retry_log' = Append(retry_log, [outcome |-> outcome,
                                                       response |-> <<>>,
                                                       delay |-> 0])
               ELSE /\ retry_pc' = "sleep"
                    /\ retry_log' =
                          Append(retry_log,
                                 [outcome |-> outcome,
                                  response |-> <<>>,
                                  delay |-> (base_delay ^ attempt') + jitter])
            /\ retry_result' = <<>>
       ELSE /\ retry_pc' = "done"
            /\ retry_result' = <<>>
            /\ retry_log' = Append(retry_log, [outcome |-> outcome,
                                               response |-> <<>>,
                                               delay |-> 0])
            /\ UNCHANGED attempt
    /\ UNCHANGED <<dbStarVars, release_state, destVars, queueVars, starVars,
                   relVars, runVars, workerVars, trackVars, mediaVars,
                   accountVars,
                   digestVars, loopVars>>

\* `await asyncio.sleep(delay)` ends
RetrySleep ==
    /\ retry_pc = "sleep"
    /\ retry_pc' = "call"
    /\ UNCHANGED <<dbStarVars, release_state, destVars, queueVars, starVars,
                   relVars, runVars, workerVars, trackVars, attempt,
                   retry_result, retry_log, mediaVars,
                   accountVars, digestVars, loopVars>>

\* ------------------------------------------------------------ monitor loops
\* RepositoryMonitor._run_check_loop ("star") and
\* ReleaseMonitor._run_check_loop ("release")
Monitors == {"star", "release"}

NoLoopLog == [raised |-> 0, restarts |-> 0, skipped |-> "", at |-> ""]

\* the loop of monitor m can take a step of its own: its task has not ended
\* and no CancelledError waits for it
Running(m) == loop_pc[m] # "ended" /\ ~cancel_requested[m]

\* clauses that let every exception end the loop
ExceptClause_break(exc) == "ended"

\* the except clauses of the loop: TimeoutError continues, CancelledError
\* breaks, any other Exception is logged and followed by sleep(120)
ExceptClause(exc) ==
    CASE exc = "TimeoutError" -> "top"
      [] exc = "CancelledError" -> "ended"
      [] OTHER -> "cooldown"

\* a first test that lets a paused monitor through
AfterPausedTest_through(paused) == "token"

\* _is_safe_to_monitor, `if await self.db_manager.is_monitoring_paused()`
AfterPausedTest(paused) == IF paused THEN "interval" ELSE "token"

\* an event that stays set
ClearEvent_keep(flag) == flag

\* self._settings_changed.clear()
ClearEvent(flag) == FALSE

LoopGoes(m, to) == loop_pc' = [loop_pc EXCEPT ![m] = to]

LoopLogs(m, field, value) ==
    loop_log' = [loop_log EXCEPT ![m] = [@ EXCEPT ![field] = value]]

\* a call of the loop's try block raises exc
LoopRaises(m, exc) ==
    /\ LoopGoes(m, ExceptClause(exc))
    /\ UNCHANGED loop_log

\* what no step of a loop outside the poll cycle itself touches
LoopFrame ==
    UNCHANGED <<dbStarVars, release_state, destVars, queueVars, starVars,
                relVars, runVars, workerVars, trackVars, retryVars,
                mediaVars, accountVars, digestVars>>

\* star loop, top of the try block: the first read of _is_safe_to_monitor
StarLoopPaused(outcome) ==
    /\ Running("star")
    /\ loop_pc["star"] = "top"
    /\ IF outcome = "ok"
       THEN /\ LoopGoes("star", AfterPausedTest(monitoring_paused))
            /\ LoopLogs("star", "skipped",
                        IF monitoring_paused THEN "paused" ELSE "")
       ELSE LoopRaises("star", outcome)
    /\ UNCHANGED <<settings_changed, cancel_requested, monitoring_paused,
                   token_stored>>
    /\ LoopFrame

\* the second read of _is_safe_to_monitor
StarLoopToken(outcome) ==
    /\ Running("star")
    /\ loop_pc["star"] = "token"
    /\ IF outcome = "ok"
       THEN /\ LoopGoes("star", IF token_stored THEN "call" ELSE "interval")
            /\ LoopLogs("star", "skipped",
                        IF token_stored THEN "" ELSE "no_token")
       ELSE LoopRaises("star", outcome)
    /\ UNCHANGED <<settings_changed, cancel_requested, monitoring_paused,
                   token_stored>>
    /\ LoopFrame

\* `await self._check_for_new_stars()` is entered
StarLoopCall(events) ==
    /\ Running("star")
    /\ loop_pc["star"] = "call"
    /\ StarFetchStep(events)
    /\ LoopGoes("star", "cycle")
    /\ UNCHANGED <<settings_changed, cancel_requested, monitoring_paused,
                   token_stored, loop_log>>

\* _check_for_new_stars has returned; it lets no Exception out
StarLoopReturn ==
    /\ Running("star")
    /\ loop_pc["star"] = "cycle"
    /\ star_pc = "wait"
    /\ LoopGoes("star", "interval")
    /\ UNCHANGED <<settings_changed, cancel_requested, monitoring_paused,
                   token_stored, loop_log>>
    /\ LoopFrame

\* release loop, top of the try block: `if await get_tracked_list()` is the
\* only test it makes; the log keeps what a test of the pause and of the
\* credential would have found
RelLoopTracked(outcome) ==
    /\ Running("release")
    /\ loop_pc["release"] = "top"
    /\ IF outcome = "ok"
       THEN /\ LoopGoes("release",
                        IF tracked_list # "" THEN "call" ELSE "interval")
            /\ LoopLogs("release", "skipped",
                        IF tracked_list = "" THEN "no_list"
                        ELSE IF monitoring_paused THEN "paused"
                        ELSE IF ~token_stored THEN "no_token" ELSE "")
       ELSE LoopRaises("release", outcome)
    /\ UNCHANGED <<settings_changed, cancel_requested, monitoring_paused,
                   token_stored>>
    /\ LoopFrame

\* `await self._check_for_new_releases()` gets as far as gather(): with a
\* stored token only, get_viewer_login returns None without one
RelLoopCall(members) ==
    /\ Running("release")
    /\ loop_pc["release"] = "call"
    /\ token_stored
    /\ ReleaseCycleStartStep(members)
    /\ LoopGoes("release", "cycle")
    /\ UNCHANGED <<settings_changed, cancel_requested, monitoring_paused,
                   token_stored, loop_log>>

\* _check_for_new_releases ends before gather(): it returns (no login, no
\* repository scraped) or one of its calls raises, which nothing in it catches
RelLoopCallEnds(outcome) ==
    /\ Running("release")
    /\ loop_pc["release"] = "call"
    /\ IF outcome = "return"
       THEN /\ LoopGoes("release", "interval")
            /\ UNCHANGED loop_log
       ELSE LoopRaises("release", outcome)
    /\ UNCHANGED <<settings_changed, cancel_requested, monitoring_paused,
                   token_stored>>
    /\ LoopFrame

\* gather() has returned: every check task catches its own exceptions
RelLoopReturn ==
    /\ Running("release")
    /\ loop_pc["release"] = "cycle"
    /\ rel_pc = "wait"
    /\ LoopGoes("release", "interval")
    /\ UNCHANGED <<settings_changed, cancel_requested, monitoring_paused,
                   token_stored, loop_log>>
    /\ LoopFrame

\* `interval = await get_..._monitor_interval() or default`
LoopReadInterval(m, outcome) ==
    /\ Running(m)
    /\ loop_pc[m] = "interval"
    /\ IF outcome = "ok"
       THEN /\ LoopGoes(m, "wait")
            /\ UNCHANGED loop_log
       ELSE LoopRaises(m, outcome)
    /\ UNCHANGED <<settings_changed, cancel_requested, monitoring_paused,
                   token_stored>>
    /\ LoopFrame

\* wait_for(self._settings_changed.wait(), timeout=interval) returns: the
\* event is set; it is cleared and the loop restarts
LoopSignalled(m) ==
    /\ Running(m)
    /\ loop_pc[m] = "wait"
    /\ settings_changed[m]
    /\ settings_changed' =
          [settings_changed EXCEPT ![m] = ClearEvent(settings_changed[m])]
    /\ LoopGoes(m, "top")
    /\ LoopLogs(m, "restarts", loop_log[m].restarts + 1)
    /\ UNCHANGED <<cancel_requested, monitoring_paused, token_stored>>
    /\ LoopFrame

\* the interval passes with the event unset: wait_for raises TimeoutError
LoopTimeout(m) ==
    /\ Running(m)
    /\ loop_pc[m] = "wait"
    /\ ~settings_changed[m]
    /\ LoopGoes(m, ExceptClause("TimeoutError"))
    /\ UNCHANGED <<settings_changed, cancel_requested, monitoring_paused,
                   token_stored, loop_log>>
    /\ LoopFrame

\* the sleep(120) of `except Exception` ends
LoopCooldownEnd(m) ==
    /\ Running(m)
    /\ loop_pc[m] = "cooldown"
    /\ LoopGoes(m, "top")
    /\ UNCHANGED <<settings_changed, cancel_requested, monitoring_paused,
                   token_stored, loop_log>>
    /\ LoopFrame

\* stop(): self._monitor_task.cancel()
MonitorStop(m) ==
    /\ Running(m)
    /\ cancel_requested' = [cancel_requested EXCEPT ![m] = TRUE]
    /\ UNCHANGED <<loop_pc, settings_changed, monitoring_paused,
                   token_stored, loop_log>>
    /\ LoopFrame

\* the cancelled task is resumed: CancelledError is raised at its await; in
\* the try block the loop breaks, in the sleep of the except clause it
\* leaves the coroutine
LoopCancelled(m) ==
    /\ cancel_requested[m]
    /\ loop_pc[m] # "ended"
    /\ LoopGoes(m, IF loop_pc[m] = "cooldown" THEN "ended"
                   ELSE ExceptClause("CancelledError"))
    /\ cancel_requested' = [cancel_requested EXCEPT ![m] = FALSE]
    /\ IF m = "star"
       THEN /\ star_pc' = "stopped"
            /\ UNCHANGED <<rel_pc, rel_pending>>
       ELSE /\ rel_pc' = "stopped"
            /\ rel_pending' = {}
            /\ UNCHANGED star_pc
    /\ UNCHANGED <<dbStarVars, release_state, destVars, queueVars,
                   star_events, star_new, star_mode, cycle, rel_last,
                   runVars, workerVars, trackVars, retryVars, mediaVars,
                   accountVars,
                   digestVars, settings_changed, monitoring_paused,
                   token_stored, loop_log>>

\* handle_settings_callback, "set_stars_interval" / "set_release_interval":
\* the interval is stored and the monitor's event is set
HandleSetInterval(m) ==
    /\ phase = "running"
    /\ loop_log[m].raised < MaxSignals
    /\ settings_changed' = [settings_changed EXCEPT ![m] = TRUE]
    /\ loop_log' = [loop_log EXCEPT ![m] =
                        [@ EXCEPT !.raised = @ + 1, !.at = loop_pc[m]]]
    /\ UNCHANGED <<loop_pc, cancel_requested, monitoring_paused,
                   token_stored>>
    /\ LoopFrame

\* handle_settings_callback, "toggle_pause"
HandleTogglePause ==
    /\ phase = "running"
    /\ monitoring_paused' = ~monitoring_paused
    /\ UNCHANGED <<loop_pc, settings_changed, cancel_requested,
                   token_stored, loop_log>>
    /\ LoopFrame

\* handle_settings_callback, "set_digest_mode": update_digest_mode(value),
\* value one of the three buttons of the digest menu
HandleSetDigestMode(value) ==
    /\ phase = "running"
    /\ digest_mode' = value
    /\ UNCHANGED <<last_check_timestamp, digest_queue, loopVars>>
    /\ UNCHANGED <<release_state, destVars, queueVars, starVars, relVars,
                   runVars, workerVars, trackVars, retryVars, mediaVars,
                   accountVars, digestVars>>

\* handle_settings_callback, "confirm_remove_token"
HandleConfirmRemoveToken ==
    /\ phase = "running"
    /\ token_stored' = FALSE
    /\ monitoring_paused' = TRUE
    /\ UNCHANGED <<loop_pc, settings_changed, cancel_requested, loop_log>>
    /\ LoopFrame

\* process_token: the token is stored; a valid one adds the user's chat to
\* both destination tables and ends the pause, an invalid one is removed
ProcessToken(valid, chat) ==
    /\ phase = "running"
    /\ IF valid
       THEN /\ token_stored' = TRUE
            /\ monitoring_paused' = FALSE
            /\ destinations' = destinations \cup {chat}
            /\ release_destinations' = release_destinations \cup {chat}
       ELSE /\ token_stored' = FALSE
            /\ UNCHANGED <<monitoring_paused, destVars>>
    /\ UNCHANGED <<dbStarVars, release_state, queueVars, starVars, relVars,
                   runVars, workerVars, trackVars, retryVars, mediaVars,
                   accountVars,
                   digestVars, loop_pc, settings_changed, cancel_requested,
                   loop_log>>

\* ------------------------------------------------------------ specification
\* the state right after run() has created its objects and started its tasks,
\* over a database left by earlier runs
Init ==
    /\ last_check_timestamp \in {<<>>} \cup {isoformat(t) : t \in 0..MaxTs}
    /\ digest_mode \in {"off", "daily", "weekly"}
    /\ digest_queue = <<>>
    /\ release_state = [r \in Repos |-> <<>>]
    /\ destinations \in SUBSET Dests
    /\ release_destinations \in SUBSET Dests
    /\ repo_queue = <<>>
    /\ unfinished = 0
    /\ star_pc = "wait"
    /\ star_events = <<>>
    /\ star_new = <<>>
    /\ star_mode = "off"
    /\ rel_pc = "wait"
    /\ rel_pending = {}
    /\ stop_event = FALSE
    /\ phase = "running"
    /\ stop_mark = 0
    /\ wpc = "get"
    /\ is_first_item_in_batch = TRUE
    /\ notification_type = ""
    /\ repo_full_name = ""
    /\ targets = <<>>
    /\ media_group = "none"
    /\ enq_log = <<>>
    /\ deq_log = <<>>
    /\ ack_log = <<>>
    /\ cycle = NoCycle
    /\ rel_last = NoCheck
    /\ send_last = NoSend
    /\ since_idle = 0
    /\ handling = NoEvent
    /\ tracked_list \in {""} \cup ListSlugs
    /\ track_flip = FALSE
    /\ held = [r \in Repos |-> {}]
    /\ retry_pc = "idle"
    /\ attempt = 0
    /\ retry_result = <<>>
    /\ retry_log = <<>>
    /\ media_pc = "idle"
    /\ media_in = <<>>
    /\ all_media_urls = {}
    /\ media_out = <<>>
    /\ probe_log = <<>>
    /\ clock = 0
    /\ db_lock = ""
    /\ digest_job = NoJob
    /\ loop_pc = [m \in Monitors |-> "top"]
    /\ settings_changed = [m \in Monitors |-> FALSE]
    /\ cancel_requested = [m \in Monitors |-> FALSE]
    /\ monitoring_paused = FALSE
    /\ token_stored = TRUE
    /\ loop_log = [m \in Monitors |-> NoLoopLog]
    /\ starred = <<>>

\* the star monitor and the digest scheduler over any stored marker and mode
InitStar ==
    /\ Init
    /\ destinations = {}
    /\ release_destinations = {}
    /\ tracked_list = "stars"

\* the release monitor
InitRelease ==
    /\ Init
    /\ last_check_timestamp = <<>>
    /\ digest_mode = "off"
    /\ destinations = {}
    /\ release_destinations = {}
    /\ tracked_list = "stars"

\* the three producers, the worker and the shutdown over a stored marker, in
\* immediate mode, with no destination configured
InitQueue ==
    /\ Init
    /\ last_check_timestamp = isoformat(0)
    /\ digest_mode \in {"off", "daily"}
    /\ destinations = {}
    /\ release_destinations = {}
    /\ tracked_list = "stars"

\* the release monitor as producer and the worker's fan-out over any
\* configuration of the two destination tables
InitFanout ==
    /\ Init
    /\ last_check_timestamp = <<>>
    /\ digest_mode = "off"
    /\ tracked_list = "stars"

\* the release monitor and the tracking-list handler, with or without a
\* tracked list
InitTracking ==
    /\ Init
    /\ last_check_timestamp = <<>>
    /\ digest_mode = "off"
    /\ destinations = {}
    /\ release_destinations = {}

\* the retry wrapper of the summarizer
InitRetry ==
    /\ Init
    /\ last_check_timestamp = <<>>
    /\ digest_mode = "off"
    /\ destinations = {}
    /\ release_destinations = {}
    /\ tracked_list = "stars"

\* the star monitor and the digest jobs, statement by statement, over a
\* stored marker
InitDigest ==
    /\ InitStar
    /\ last_check_timestamp = isoformat(0)

\* the monitor loops over a stored marker, with or without a tracked list
InitLoop ==
    /\ Init
    /\ last_check_timestamp = isoformat(0)
    /\ destinations = {}
    /\ release_destinations = {}
    /\ tracked_list \in {"", "stars"}

\* the same in a digest mode, where no step waits for room in enq_log
InitLoopFair == InitLoop /\ digest_mode # "off"

\* the star monitor and the digest jobs of a new installation
InitStarred == InitStar /\ last_check_timestamp = <<>>

\* the release loop over a tracked list, with no release id stored yet
InitRelLoop == InitLoop /\ digest_mode = "off" /\ tracked_list = "stars"

\* the worker over a queue that holds up to MaxBurst items of either type for
\* one repository, and over any content of the two destination tables
InitOrchestrator ==
    /\ last_check_timestamp = <<>>
    /\ digest_mode = "off"
    /\ digest_queue = <<>>
    /\ release_state = [r \in Repos |-> <<>>]
    /\ \E t \in {u \in (SUBSET StoredDests) \X (SUBSET StoredDests) :
                 Cardinality(u[1]) + Cardinality(u[2]) <= MaxDests} :
          /\ destinations = t[1]
          /\ release_destinations = t[2]
    /\ \E n \in 1..MaxBurst : \E kinds \in [1..n -> {"star", "release"}] :
          repo_queue = [i \in 1..n |-> TupleItem(kinds[i], "a/b", i)]
    /\ enq_log = repo_queue
    /\ unfinished = Len(repo_queue)
    /\ star_pc = "wait"
    /\ star_events = <<>>
    /\ star_new = <<>>
    /\ star_mode = "off"
    /\ rel_pc = "wait"
    /\ rel_pending = {}
    /\ stop_event = FALSE
    /\ phase = "running"
    /\ stop_mark = 0
    /\ wpc = "get"
    /\ is_first_item_in_batch = TRUE
    /\ notification_type = ""
    /\ repo_full_name = ""
    /\ targets = <<>>
    /\ media_group = "none"
    /\ deq_log = <<>>
    /\ ack_log = <<>>
    /\ cycle = NoCycle
    /\ rel_last = NoCheck
    /\ send_last = NoSend
    /\ since_idle = 0
    /\ handling = NoEvent
    /\ tracked_list = "stars"
    /\ track_flip = FALSE
    /\ held = [r \in Repos |-> {}]
    /\ retry_pc = "idle"
    /\ attempt = 0
    /\ retry_result = <<>>
    /\ retry_log = <<>>
    /\ media_pc = "idle"
    /\ media_in = <<>>
    /\ all_media_urls = {}
    /\ media_out = <<>>
    /\ probe_log = <<>>
    /\ clock = 0
    /\ db_lock = ""
    /\ digest_job = NoJob
    /\ loop_pc = [m \in Monitors |-> "top"]
    /\ settings_changed = [m \in Monitors |-> FALSE]
    /\ cancel_requested = [m \in Monitors |-> FALSE]
    /\ monitoring_paused = FALSE
    /\ token_stored = TRUE
    /\ loop_log = [m \in Monitors |-> NoLoopLog]
    /\ starred = <<>>

NextStar ==
    \/ \E events \in Pages : StarFetch(events)
    \/ StarHandOver
    \/ StarCommit
    \/ StarFail
    \/ SendDailyDigest
    \/ SendWeeklyDigest

NextRelease ==
    \/ \E members \in SUBSET Repos : ReleaseCycleStart(members)
    \/ \E r \in Repos, n \in 0..MaxRel, o \in {"ok", "fetch", "update"} :
          ProcessSingleRepoRelease(r, n, o)

NextWorker ==
    \/ WorkerGet
    \/ WorkerTimeout
    \/ WorkerSleep
    \/ \E snapshot \in {"ok", "absent"}, prep \in PrepInputs(notification_type),
          order \in Orderings(PayloadDestinations(notification_type)) :
          ProcessAndSend(snapshot, prep, order)
    \/ \E first \in SendResults :
          \E download \in DownloadAnswers(media_group, first) :
             \E upload \in UploadAnswers(media_group, first, download) :
                \E text \in TextAnswers(media_group, first, download, upload) :
                   SendNotification(first, download, upload, text)
    \/ WorkerItemRaised

NextRun ==
    \/ BeginShutdown
    \/ WorkerCancelled
    \/ Teardown

NextQueue ==
    \/ \E events \in
          {<<[starred_at |-> MaxTs, full_name |-> "x/y"],
             [starred_at |-> MaxTs - 1, full_name |-> "a/b"]>>,
           <<[starred_at |-> MaxTs, full_name |-> "a/b"]>>} : StarFetch(events)
    \/ StarHandOver
    \/ StarCommit
    \/ SendDailyDigest
    \/ ReleaseCycleStart({"x/y"})
    \/ \E n \in 1..MaxRel : ProcessSingleRepoRelease("x/y", n, "ok")
    \/ WorkerGet
    \/ WorkerTimeout
    \/ WorkerSleep
    \/ \E snapshot \in {"ok", "absent"} : ProcessAndSend(snapshot, NoPrep, <<>>)
    \/ WorkerItemRaised
    \/ NextRun

NextFanout ==
    \/ ReleaseCycleStart({"x/y"})
    \/ \E n \in 1..MaxRel : ProcessSingleRepoRelease("x/y", n, "ok")
    \/ NextWorker

NextTracking ==
    \/ ReleaseCycleStart({"x/y"})
    \/ \E n \in 0..MaxRel, o \in {"ok", "fetch", "update"} :
          ProcessSingleRepoRelease("x/y", n, o)
    \/ \E i \in TrackingInputs :
          HandleSetTrackingList(i.list_slug, i.login_ok, i.members,
                                i.fetch_ok, i.fetched)

NextRetry ==
    \/ RetryStart
    \/ \E outcome \in {"ok", "quota", "error"},
          response \in {<<"r1">>, <<"r2">>}, jitter \in {0, 1} :
          RetryCall(outcome, response, jitter)
    \/ RetrySleep

NextDigest ==
    \/ \E events \in
          {<<[starred_at |-> t, full_name |-> "a/b"]>> : t \in 1..MaxTs}
          \cup {<<[starred_at |-> t, full_name |-> "x/y"],
                  [starred_at |-> t - 1, full_name |-> "a/b"]>> :
                   t \in 1..MaxTs} : StarFetch(events)
    \/ StarHandOver
    \/ StarCommit
    \/ \E kind \in {"daily", "weekly"} : DigestJobFire(kind)
    \/ \E repo_list \in SelectDigestQueue(digest_queue) :
          DigestJobSelect(repo_list)
    \/ DigestJobDelete
    \/ Tick

\* the star monitor over the stars of the account, every poll answered with
\* the newest page of them, with the digest jobs and the digest menu
NextStarred ==
    \/ \E r \in Repos : UserStars(r)
    \/ Tick
    \/ StarFetch(StarredPage(starred))
    \/ StarHandOver
    \/ StarCommit
    \/ \E kind \in {"daily", "weekly"} : DigestJobFire(kind)
    \/ \E repo_list \in SelectDigestQueue(digest_queue) :
          DigestJobSelect(repo_list)
    \/ DigestJobDelete
    \/ \E value \in {"off", "daily", "weekly"} : HandleSetDigestMode(value)

\* the pages the star API answers with in the loop specifications
LoopPages == {<<>>, <<[starred_at |-> 1, full_name |-> "a/b"]>>}

\* the star loop with the handlers that pause it, signal it and stop it
NextLoop ==
    \/ \E o \in {"ok", "Exception"} : StarLoopPaused(o)
    \/ \E o \in {"ok", "Exception"} : StarLoopToken(o)
    \/ \E events \in LoopPages : StarLoopCall(events)
    \/ StarHandOver
    \/ StarCommit
    \/ StarFail
    \/ StarLoopReturn
    \/ \E o \in {"ok", "Exception"} : LoopReadInterval("star", o)
    \/ LoopSignalled("star")
    \/ LoopTimeout("star")
    \/ LoopCooldownEnd("star")
    \/ MonitorStop("star")
    \/ LoopCancelled("star")
    \/ HandleSetInterval("star")
    \/ HandleTogglePause
    \/ HandleConfirmRemoveToken

\* the two loops side by side, with the errors their calls raise and stop()
NextLoops ==
    \/ \E o \in {"ok", "Exception"} : StarLoopPaused(o)
    \/ \E o \in {"ok", "Exception"} : StarLoopToken(o)
    \/ \E events \in LoopPages : StarLoopCall(events)
    \/ StarHandOver
    \/ StarCommit
    \/ StarFail
    \/ StarLoopReturn
    \/ \E o \in {"ok", "Exception"} : RelLoopTracked(o)
    \/ RelLoopCall({"x/y"})
    \/ \E o \in {"return", "Exception", "TimeoutError"} : RelLoopCallEnds(o)
    \/ \E o \in {"ok", "fetch"} : ProcessSingleRepoRelease("x/y", 1, o)
    \/ RelLoopReturn
    \/ \E m \in Monitors, o \in {"ok", "Exception"} : LoopReadInterval(m, o)
    \/ \E m \in Monitors : LoopTimeout(m)
    \/ \E m \in Monitors : LoopCooldownEnd(m)
    \/ \E m \in Monitors : MonitorStop(m)
    \/ \E m \in Monitors : LoopCancelled(m)

\* the release loop over a list of one repository, with the handlers of the
\* pause and of the token
NextRelLoop ==
    \/ RelLoopTracked("ok")
    \/ RelLoopCall({"x/y"})
    \/ RelLoopCallEnds("return")
    \/ \E n \in 0..MaxRel : ProcessSingleRepoRelease("x/y", n, "ok")
    \/ RelLoopReturn
    \/ LoopReadInterval("release", "ok")
    \/ LoopTimeout("release")
    \/ HandleTogglePause
    \/ HandleConfirmRemoveToken
    \/ \E valid \in BOOLEAN, chat \in Dests : ProcessToken(valid, chat)

\* the release loop with the checks of both repositories and the errors its
\* calls raise
NextGather ==
    \/ \E o \in {"ok", "Exception"} : RelLoopTracked(o)
    \/ \E members \in (SUBSET Repos) \ {{}} : RelLoopCall(members)
    \/ \E o \in {"return", "Exception"} : RelLoopCallEnds(o)
    \/ \E r \in Repos, n \in 0..MaxRel, o \in {"ok", "fetch", "update"} :
          ProcessSingleRepoRelease(r, n, o)
    \/ RelLoopReturn
    \/ \E o \in {"ok", "Exception"} : LoopReadInterval("release", o)
    \/ LoopTimeout("release")
    \/ LoopCooldownEnd("release")

NextMedia ==
    \/ BuildMediaGroup
    \/ \E urls \in NextSelections(media_in) : MediaNext(urls)

NextRanking ==
    \/ BuildMediaGroup
    \/ \E urls \in SUBSET RankedUrls, raised \in BOOLEAN,
          kind \in {"none", "not_json", "invalid", "ok"} :
          \E answered \in IF kind = "ok"
                          THEN UNION {[1..n -> RankedUrls] : n \in 0..MaxAnswered}
                          ELSE {<<>>} :
             GetNotificationMedia(urls, [kind |-> kind, urls |-> answered],
                                  raised)

Next ==
    \/ NextStar
    \/ NextRelease
    \/ NextWorker
    \/ NextRun
    \/ NextTracking
    \/ NextRetry
    \/ NextMedia
    \/ NextRanking
    \/ NextDigest
    \/ NextLoop
    \/ NextLoops
    \/ NextRelLoop
    \/ NextGather
    \/ NextStarred
    \/ \E m \in Monitors : LoopSignalled(m)
    \/ \E m \in Monitors : HandleSetInterval(m)
    \/ \E valid \in BOOLEAN, chat \in Dests : ProcessToken(valid, chat)

Spec == Init /\ [][Next]_vars
SpecStar == InitStar /\ [][NextStar]_vars
SpecRelease == InitRelease /\ [][NextRelease]_vars
SpecQueue == InitQueue /\ [][NextQueue]_vars
SpecFanout == InitFanout /\ [][NextFanout]_vars
SpecTracking == InitTracking /\ [][NextTracking]_vars
SpecRetry == InitRetry /\ [][NextRetry]_vars
SpecOrchestrator == InitOrchestrator /\ [][NextWorker]_vars
SpecMedia == InitRetry /\ [][NextMedia]_vars
SpecRanking == InitRetry /\ [][NextRanking]_vars
SpecDigest == InitDigest /\ [][NextDigest]_vars
SpecLoop == InitLoop /\ [][NextLoop]_vars

\* the star loop in a digest mode, where no step waits for room in enq_log,
\* with what the event loop and the environment owe it: a task that can run
\* is run, a sleep(120) ends, and a database read that can succeed does not
\* fail every time it is made.  Nothing is assumed about the interval
\* running out, about the handlers or about stop()
SpecLoopFair ==
    /\ InitLoopFair
    /\ [][NextLoop]_vars
    /\ SF_vars(StarLoopPaused("ok"))
    /\ SF_vars(StarLoopToken("ok"))
    /\ WF_vars(\E events \in LoopPages : StarLoopCall(events))
    /\ WF_vars(StarHandOver)
    /\ WF_vars(StarCommit)
    /\ WF_vars(StarLoopReturn)
    /\ SF_vars(LoopReadInterval("star", "ok"))
    /\ WF_vars(LoopSignalled("star"))
    /\ WF_vars(LoopCooldownEnd("star"))
    /\ WF_vars(LoopCancelled("star"))

\* the two loops, where a sleep(120) ends and a cancelled task is resumed
SpecLoops ==
    /\ InitLoop
    /\ [][NextLoops]_vars
    /\ \A m \in Monitors :
          /\ WF_vars(LoopCooldownEnd(m))
          /\ WF_vars(LoopCancelled(m))

\* the star monitor over the stars of the account, where the loop keeps
\* polling, every poll and every database call succeeds, and the scheduler
\* keeps firing both digest jobs and lets a job that has started run on
SpecStarred ==
    /\ InitStarred
    /\ [][NextStarred]_vars
    /\ WF_vars(StarFetch(StarredPage(starred)))
    /\ WF_vars(StarHandOver)
    /\ WF_vars(StarCommit)
    /\ \A kind \in {"daily", "weekly"} : WF_vars(DigestJobFire(kind))
    /\ WF_vars(\E repo_list \in SelectDigestQueue(digest_queue) :
                  DigestJobSelect(repo_list))
    /\ WF_vars(DigestJobDelete)

SpecRelLoop == InitRelLoop /\ [][NextRelLoop]_vars

\* the release loop, where each check task of a gather() that is not yet done
\* is run
SpecGather ==
    /\ InitRelLoop
    /\ [][NextGather]_vars
    /\ \A r \in Repos :
          WF_vars(\E n \in 0..MaxRel, o \in {"ok", "fetch", "update"} :
                     ProcessSingleRepoRelease(r, n, o))

\* ------------------------------------------------------------------ claims
\* the value a stored marker string stands for
FromIso(str) == str[1] * 4 + str[2] * 2 + str[3]

\* the newest timestamp among the events of a page
MaxStarredAt(events) ==
    CHOOSE t \in {events[i].starred_at : i \in 1..Len(events)} :
        \A i \in 1..Len(events) : events[i].starred_at <= t

\* the events of a page that are strictly newer than the marker, as returned
NewerThan(events, marker) ==
    SelectSeq(events, LAMBDA e : e.starred_at > FromIso(marker))

\* the events a cycle handed over, in hand-over order
HandedEvents == [i \in 1..Len(cycle.handed) |-> cycle.handed[i].event]

\* C1: a release check of a repository with no stored id that ran without
\* error stores the fetched id and puts nothing on the queue
C1_ColdStartReleaseSilent ==
    (rel_last.outcome = "ok" /\ rel_last.latest # <<>> /\ rel_last.known = <<>>)
    => /\ release_state[rel_last.repo] = rel_last.latest
       /\ Len(enq_log) = rel_last.before

\* C2: the step of a star poll that finds no stored marker and a non-empty
\* page sets the marker to the newest timestamp of the page and leaves the
\* delivery queue and the digest queue as they were, in every digest mode
C2_StarBaselineSilent ==
    [][(last_check_timestamp = <<>> /\ cycle' # cycle
        /\ cycle'.status \notin {"none", "empty"})
       => /\ cycle'.status = "baseline"
          /\ last_check_timestamp' = isoformat(MaxStarredAt(cycle'.events))
          /\ repo_queue' = repo_queue
          /\ enq_log' = enq_log
          /\ digest_queue' = digest_queue
          /\ star_pc' = "wait"]_vars

C2_Witness ==
    /\ cycle.status = "baseline"
    /\ Len(cycle.events) = 2
    /\ cycle.events[1].starred_at > cycle.events[2].starred_at
    /\ cycle.mode # "off"
    /\ last_check_timestamp = isoformat(cycle.events[1].starred_at)

C5_ItemsAreTaggedTuples ==
    \A i \in 1..Len(enq_log) :
        /\ enq_log[i].shape = "tuple"
        /\ enq_log[i].kind \in {"star", "release"}

\* C6: whenever the worker is between two iterations or has ended, every
\* item it took from the queue has been marked done exactly once
C6_EveryItemAckedOnce ==
    wpc \in {"get", "exited"}
    => ack_log = [i \in 1..Len(deq_log) |-> deq_log[i].seq]

\* C7: the items the worker has taken from the queue are, in order, the
\* first items that were put on it, whichever producers put them
C7_WorkerFifo ==
    /\ Len(deq_log) <= Len(enq_log)
    /\ \A i \in 1..Len(deq_log) : deq_log[i] = enq_log[i] /\ deq_log[i].seq = i

C7_Witness ==
    /\ Len(deq_log) = 3
    /\ Len(cycle.handed) = 2
    /\ \E i \in 1..2, j \in 2..3 :
          /\ i < j
          /\ deq_log[i].shape = "str"
          /\ deq_log[j].shape = "str"
          /\ deq_log[i].repo = cycle.handed[1].event.full_name
          /\ deq_log[j].repo = cycle.handed[2].event.full_name
          /\ deq_log[i].repo # deq_log[j].repo
    /\ \E k \in 1..3 : deq_log[k].shape = "tuple"

\* C8: when run() has closed its collaborators, every item that was put on
\* the queue before the shutdown began has been taken by the worker
C8_DrainedAtClose ==
    phase = "closed" => Len(deq_log) >= stop_mark

\* C9: after a _send_notification call whose first attempt was answered with
\* a permanent-class error the destination is in neither table and the call
\* made no second attempt
C9_PermanentFirstRemoves ==
    (send_last.attempts # <<>>
     /\ send_last.attempts[1].result \in {"permanent", "permanent_content"})
    => /\ send_last.target \notin destinations
       /\ send_last.target \notin release_destinations
       /\ Len(send_last.attempts) = 1

C9_Witness ==
    /\ send_last.attempts # <<>>
    /\ send_last.attempts[1].result = "permanent"
    /\ send_last.attempts[1].call = "send_photo"
    /\ send_last.in_star
    /\ send_last.in_release
    /\ send_last.target \notin destinations \cup release_destinations

\* C10: after a _send_notification call in which any attempt (direct, upload
\* or text) was answered with a permanent-class error the destination is in
\* neither table
C10_PermanentAnyStageRemoves ==
    (\E i \in 1..Len(send_last.attempts) :
        send_last.attempts[i].result \in {"permanent", "permanent_content"})
    => /\ send_last.target \notin destinations
       /\ send_last.target \notin release_destinations

\* C11: when the worker is through with an event whose payload was built,
\* whether every send returned or the id of one destination could not be
\* parsed, a delivery attempt has been made for every destination of the
\* payload
C11_EveryDestinationAttempted ==
    (handling.snapshot = "ok"
     /\ handling.type \in {"star", "release"}
     /\ handling.ended \in {"returned", "malformed_id"})
    => handling.dests \subseteq handling.attempted

\* the stages of one _send_notification call come in the order direct, upload,
\* text, each at most once, and every stage but the last one failed
StagesInOrder(attempts) ==
    LET rank(how) == CASE how = "direct" -> 1 [] how = "upload" -> 2
                       [] how = "text" -> 3
    IN  /\ attempts # <<>> => attempts[1].how = "direct"
        /\ \A i \in 1..Len(attempts), j \in 1..Len(attempts) :
              i < j => /\ rank(attempts[i].how) < rank(attempts[j].how)
                       /\ attempts[i].result # "ok"

\* the last attempt of the call is the caption as text with a link preview
EndsWithText(attempts) ==
    /\ attempts[Len(attempts)].how = "text"
    /\ attempts[Len(attempts)].call = "send_message"
    /\ attempts[Len(attempts)].preview

\* the call made an upload and the upload failed
UploadFailed(attempts) ==
    \E i \in 1..Len(attempts) :
        attempts[i].how = "upload" /\ attempts[i].result # "ok"

\* C12 as stated: after a direct media send that failed with a content-class
\* error the call downloaded the media and, given bytes, re-sent them by
\* upload; after a failed download or upload it sent the text message; the
\* stages came in order
C12_Original ==
    (send_last.attempts # <<>>
     /\ send_last.media # "none"
     /\ send_last.attempts[1].result \in {"content", "permanent_content"})
    => /\ send_last.download # "none"
       /\ send_last.download = "bytes"
          => /\ Len(send_last.attempts) >= 2
             /\ send_last.attempts[2].how = "upload"
       /\ (send_last.download = "failed" \/ UploadFailed(send_last.attempts))
          => EndsWithText(send_last.attempts)
       /\ StagesInOrder(send_last.attempts)

\* C12: after a direct media send that failed with a content-class error that
\* is not permanent-class, a call whose first media item is a photo downloaded
\* it, re-sent it by upload if the download gave bytes, and sent the text
\* message if the download gave nothing or the upload failed; a call whose
\* first media item is a video made no download and no upload and sent the
\* text message; in every call the stages came in order
C12_FallbackChain ==
    /\ StagesInOrder(send_last.attempts)
    /\ (send_last.attempts # <<>>
        /\ send_last.media # "none"
        /\ send_last.attempts[1].result = "content")
       => IF send_last.media \in {"photo", "photo_group"}
          THEN /\ send_last.download # "none"
               /\ IF send_last.download = "bytes"
                  THEN /\ send_last.attempts[2].how = "upload"
                       /\ send_last.attempts[2].call = "send_photo"
                       /\ IF send_last.attempts[2].result = "ok"
                          THEN Len(send_last.attempts) = 2
                          ELSE /\ Len(send_last.attempts) = 3
                               /\ EndsWithText(send_last.attempts)
                  ELSE /\ Len(send_last.attempts) = 2
                       /\ EndsWithText(send_last.attempts)
          ELSE /\ send_last.download = "none"
               /\ Len(send_last.attempts) = 2
               /\ EndsWithText(send_last.attempts)

C12_Witness ==
    /\ send_last.media = "photo_group"
    /\ send_last.download = "bytes"
    /\ Len(send_last.attempts) = 3
    /\ send_last.attempts[1].call = "send_media_group"
    /\ send_last.attempts[1].result = "content"
    /\ send_last.attempts[2].how = "upload"
    /\ send_last.attempts[2].result = "other"
    /\ send_last.attempts[3].how = "text"
    /\ send_last.attempts[3].result = "ok"

\* the worker has begun, or is through with, the processing of the item it
\* got last
ProcessingBegun ==
    /\ handling.item # 0
    /\ \/ wpc \in {"process", "send"}
       \/ handling.ended \in {"returned", "raised", "malformed_id"}

\* C13: the worker slept the inter-item delay before it processed an item
\* exactly if the item was not the first one it got since it started or since
\* its last idle timeout, however the processing of the items before it ended
C13_DelayIffNotFirst ==
    ProcessingBegun => (handling.slept <=> handling.pos > 1)

\* C14: a step in which the processing of the item the worker got last raises
\* (the unpacking, the snapshot fetch, the payload preparation or a send),
\* while the shutdown flag is not set, leaves the worker at the top of its
\* loop, about to get the next item
C14_RaiseKeepsLooping ==
    [][(handling' # handling
        /\ handling'.ended \in {"unpack", "raised", "malformed_id"}
        /\ ~stop_event')
       => wpc' = "get"]_vars

C14_Witness ==
    /\ Len(deq_log) = 2
    /\ deq_log[1].shape = "tuple"
    /\ Len(ack_log) = 1
    /\ handling.item = 2
    /\ handling.pos = 2
    /\ is_first_item_in_batch
    /\ wpc = "process"
    /\ ~stop_event

\* C15: the wrapper never makes more than max_retries calls and makes another
\* call only after a quota error; when it has returned, the last call was the
\* first one that did not raise a quota error or the max_retries-th one; it
\* returned the response of a call that succeeded and nothing after a call
\* that raised, and it has no way of ending other than returning
C15_BoundedRetry ==
    /\ retry_pc \in {"idle", "call", "sleep", "done"}
    /\ Len(retry_log) <= max_retries
    /\ \A i \in 1..(Len(retry_log) - 1) : retry_log[i].outcome = "quota"
    /\ (retry_pc \in {"call", "sleep"} /\ retry_log # <<>>)
       => /\ retry_log[Len(retry_log)].outcome = "quota"
          /\ Len(retry_log) < max_retries
    /\ retry_pc = "done"
       => /\ retry_log # <<>>
          /\ LET last == retry_log[Len(retry_log)] IN
             /\ last.outcome = "ok"
                => /\ retry_result = last.response
                   /\ retry_result # <<>>
             /\ last.outcome = "error" => retry_result = <<>>
             /\ last.outcome = "quota"
                => /\ Len(retry_log) = max_retries
                   /\ retry_result = <<>>

C15_Witness ==
    /\ retry_pc = "done"
    /\ Len(retry_log) = max_retries
    /\ \A i \in 1..Len(retry_log) : retry_log[i].outcome = "quota"
    /\ retry_result = <<>>

\* C16: a step that changes the stored star marker is the end of a baseline
\* cycle or of a cycle that handed over its new stars without error, and it
\* sets a marker where there was none or a strictly later one; no step of an
\* empty, eventless or failing cycle changes it
C16_MarkerMonotone ==
    [][last_check_timestamp' # last_check_timestamp
       => /\ cycle' # cycle
          /\ cycle'.status \in {"baseline", "ok"}
          /\ last_check_timestamp' # <<>>
          /\ \/ last_check_timestamp = <<>>
             \/ FromIso(last_check_timestamp') > FromIso(last_check_timestamp)]_vars

C16_Witness ==
    /\ cycle.status = "ok"
    /\ cycle.marker0 # <<>>
    /\ Len(cycle.events) = 2
    /\ Len(cycle.handed) = 1
    /\ FromIso(last_check_timestamp) > FromIso(cycle.marker0)

C18_SetOfType ==
    IF handling.type = "star" THEN handling.star_set ELSE handling.release_set

C19_AbortThisEventOnly ==
    [][(handling'.snapshot = "absent" /\ handling.snapshot # "absent")
       => /\ handling'.ai_calls = 0
          /\ handling'.attempted = {}
          /\ handling'.ended = "returned"
          /\ send_last' = send_last
          /\ destinations' = destinations
          /\ release_destinations' = release_destinations
          /\ unfinished' = unfinished - 1
          /\ wpc' = "get"]_vars

\* a star event whose snapshot was absent has ended with destinations stored
\* and another item waiting, and the worker is at the queue
C19_Witness ==
    /\ handling.snapshot = "absent"
    /\ handling.type = "star"
    /\ handling.ended = "returned"
    /\ destinations # {}
    /\ repo_queue # <<>>
    /\ wpc = "get"

\* the event being handled is a star event for which neither the ranked
\* candidates nor the social-preview scrape gave any media
C20_NoMediaStar ==
    /\ handling.type = "star"
    /\ handling.snapshot = "ok"
    /\ handling.resolved = "nothing"

\* the calls of one _send_notification that were answered with success
C20_Delivered(attempts) ==
    {i \in 1..Len(attempts) : attempts[i].result = "ok"}

C21_OneRankedImage ==
    /\ handling.type = "star"
    /\ handling.snapshot = "ok"
    /\ handling.resolved = "ranked"
    /\ handling.media = "photo"

\* C21: for a star event whose ranked media is exactly one image, a call for
\* a destination whose photo send succeeds is for a destination not sent to
\* before and makes exactly one send, a send_photo by URL with the caption as
\* its argument, and no text-message send
C21_OnePhotoNoText ==
    [][(/\ C21_OneRankedImage'
        /\ handling'.attempted # handling.attempted
        /\ send_last'.attempts # <<>>
        /\ send_last'.attempts[1].result = "ok")
       => /\ send_last'.target \notin handling.attempted
          /\ Len(send_last'.attempts) = 1
          /\ send_last'.attempts[1].call = "send_photo"
          /\ send_last'.attempts[1].how = "direct"
          /\ send_last'.attempts[1].caption = "argument"
          /\ \A i \in 1..Len(send_last'.attempts) :
                send_last'.attempts[i].call # "send_message"]_vars

\* such an event with two destinations has been handled and its last send was
\* a photo that was delivered
C21_Witness ==
    /\ C21_OneRankedImage
    /\ handling.ended = "returned"
    /\ Cardinality(handling.dests) = 2
    /\ handling.attempted = handling.dests
    /\ send_last.item = handling.item
    /\ Len(send_last.attempts) = 1
    /\ send_last.attempts[1].call = "send_photo"
    /\ send_last.attempts[1].result = "ok"

\* the final URL of the candidate's probe contains an exclusion keyword
C22_ExcludedFinal(c) ==
    \E i \in 1..Len(c.answer.final) :
        LowerPart(c.answer.final[i]) \in EXCLUDED_KEYWORDS

\* the candidate matches the trusted first-party asset pattern
C22_Trusted(c) ==
    /\ \E i \in 1..Len(c.url) : c.url[i] = "github.com/"
    /\ \E i \in 1..Len(c.url) : c.url[i] = "/assets/"

\* the candidate belongs in the media list: it is trusted, or its probe
\* succeeded with an image or video content type and its final URL matches no
\* exclusion keyword
C22_Accepted(c) ==
    \/ C22_Trusted(c)
    \/ /\ ~c.answer.raised
       /\ c.answer.status = 200
       /\ c.answer.content_type \in {"image/png", "Image/PNG", "video/mp4"}
       /\ ~C22_ExcludedFinal(c)

\* C22: the media list built from the candidates holds one entry for each
\* candidate that is trusted or passed its probe unexcluded, and no other
\* entry; a trusted candidate is never probed and every other candidate is
\* probed exactly once
C22_ExactlyTheValidCandidates ==
    media_pc = "built"
    => /\ {media_out[k].from : k \in 1..Len(media_out)}
             = {i \in 1..Len(media_in) : C22_Accepted(media_in[i])}
       /\ Len(media_out)
             = Cardinality({i \in 1..Len(media_in) : C22_Accepted(media_in[i])})
       /\ \A i \in 1..Len(media_in) :
             Cardinality({k \in 1..Len(probe_log) : probe_log[k] = i})
                = IF C22_Trusted(media_in[i]) THEN 0 ELSE 1

\* a list of a trusted candidate and of one whose probe found an image at an
\* excluded address has been built into a list of one entry
C22_Witness ==
    /\ media_pc = "built"
    /\ Len(media_in) = 2
    /\ Len(media_out) = 1
    /\ probe_log # <<>>
    /\ \E i \in 1..2 : C22_Trusted(media_in[i])
    /\ \E i \in 1..2 :
          /\ media_in[i].answer.content_type = "image/png"
          /\ C22_ExcludedFinal(media_in[i])

\* C23: every hand-over step of a star poll gives its star to exactly one
\* sink: under digest mode off the delivery queue gets one more item, a star
\* event for the star's repository, and the digest queue is left alone;
\* under any other mode the repository is in the digest queue afterwards and
\* the delivery queue is left alone; and a poll that ran through has handed
\* over every new star it found
C23_ExactlyOneSink ==
    [][/\ Len(cycle'.handed) > Len(cycle.handed)
          => LET h == cycle'.handed[Len(cycle'.handed)] IN
             /\ cycle'.handed = Append(cycle.handed, h)
             /\ IF cycle.mode = "off"
                THEN /\ h.sink = "queue"
                     /\ Len(enq_log') = Len(enq_log) + 1
                     /\ repo_queue' = Append(repo_queue,
                                             enq_log'[Len(enq_log')])
                     /\ enq_log'[Len(enq_log')].repo = h.event.full_name
                     /\ enq_log'[Len(enq_log')].shape = "tuple"
                     /\ enq_log'[Len(enq_log')].kind = "star"
                     /\ digest_queue' = digest_queue
                ELSE /\ h.sink = "digest"
                     /\ h.event.full_name \in Range(RepoNames(digest_queue'))
                     /\ repo_queue' = repo_queue
                     /\ enq_log' = enq_log
       /\ (cycle'.status = "ok" /\ cycle'.marker0 # <<>>)
          => Len(cycle'.handed) = Len(NewerThan(cycle'.events, cycle'.marker0))
      ]_vars

\* C24: the step in which a digest job that found its mode drains the digest
\* queue leaves the digest queue empty and appends to the delivery queue one
\* star event per row it removed, in the order in which the rows were
\* inserted
C24_DrainInInsertionOrder ==
    [][(digest_job.pc = "delete" /\ digest_job'.pc = "idle")
       => /\ digest_queue' = <<>>
          /\ Len(enq_log') = Len(enq_log) + Len(digest_queue)
          /\ repo_queue' = repo_queue
                \o [i \in 1..Len(digest_queue) |-> enq_log'[Len(enq_log) + i]]
          /\ \A i \in 1..Len(digest_queue) :
                /\ enq_log'[Len(enq_log) + i].repo
                      = digest_queue[i].repo_full_name
                /\ enq_log'[Len(enq_log) + i].shape = "tuple"
                /\ enq_log'[Len(enq_log) + i].kind = "star"]_vars

\* the rows a step takes out of the digest queue
C25_Removed == Range(digest_queue) \ Range(digest_queue')

\* C25: under every interleaving of the digest job with the inserts of the
\* star monitor, rows leave the digest queue only in the step in which a
\* drain returns, the rows that step removes are exactly the rows the drain
\* returns, and none of them is in the queue afterwards
C25_DrainReturnsWhatItDeletes ==
    [][/\ C25_Removed # {}
          => (digest_job.pc = "delete" /\ digest_job'.pc = "idle")
       /\ (digest_job.pc = "delete" /\ digest_job'.pc = "idle")
          => /\ Range(digest_job'.repo_list) = C25_Removed
             /\ Range(digest_job'.repo_list) \cap Range(digest_queue') = {}
      ]_vars

\* a drain has read a non-empty list and holds the lock while the star
\* monitor is in its loop with a star to insert into the digest queue
C25_Witness ==
    /\ digest_job.pc = "delete"
    /\ digest_job.repo_list # <<>>
    /\ db_lock # ""
    /\ star_pc = "handover"
    /\ star_new # <<>>
    /\ ~IsInstantMode(star_mode)
    /\ Head(star_new).full_name \notin Range(RepoNames(digest_queue))

\* C26: a step of a digest job changes the digest queue or the delivery queue
\* only when the configured digest mode is the job's own cadence; a job that
\* fires under any other mode ends at once and leaves both queues as they were
C26_JobActsOnlyInItsMode ==
    [][digest_job' # digest_job
       => /\ digest_job'.kind # digest_mode
             => /\ digest_job'.pc = "idle"
                /\ digest_queue' = digest_queue
                /\ repo_queue' = repo_queue
                /\ enq_log' = enq_log
          /\ (digest_queue' # digest_queue \/ repo_queue' # repo_queue)
             => digest_job'.kind = digest_mode
      ]_vars

\* a job has fired under a mode that is not its cadence while the digest
\* queue held a repository
C26_Witness ==
    /\ digest_job.pc = "idle"
    /\ digest_job.kind \in {"daily", "weekly"}
    /\ digest_job.mode # digest_job.kind
    /\ digest_queue # <<>>

\* the hand-over loop of the star monitor is about to insert a repository
\* that the digest queue already holds
C27_InsertsPresent ==
    /\ star_pc = "handover"
    /\ star_new # <<>>
    /\ ~IsInstantMode(star_mode)
    /\ Head(star_new).full_name \in Range(RepoNames(digest_queue))

\* C27: an insert of a repository that the digest queue already holds leaves
\* the queue unchanged; the queue never holds two rows of one repository, and
\* an insert only appends, so that each row stays where its first insertion
\* put it
C27_InsertIsIdempotent ==
    [][/\ (C27_InsertsPresent /\ star_new' # star_new)
          => digest_queue' = digest_queue
       /\ Cardinality(Range(RepoNames(digest_queue'))) = Len(digest_queue')
       /\ Len(digest_queue') > Len(digest_queue)
          => /\ Len(digest_queue') = Len(digest_queue) + 1
             /\ SubSeq(digest_queue', 1, Len(digest_queue)) = digest_queue
      ]_vars

\* the star monitor has last handed to the digest queue a repository whose
\* row is not the newest one: the insert found the row of an earlier insert
C27_Witness ==
    /\ cycle.handed # <<>>
    /\ LET h == cycle.handed[Len(cycle.handed)] IN
       /\ h.sink = "digest"
       /\ digest_queue # <<>>
       /\ h.event.full_name \in Range(RepoNames(digest_queue))
       /\ digest_queue[Len(digest_queue)].repo_full_name # h.event.full_name

\* C28: the loop of a monitor ends only in a step that delivers a
\* cancellation to it; an error raised by the test at the top of the loop, by
\* the poll cycle or by the read of the interval leaves the loop running, and
\* a loop that such an error sent into its cool-down is back at the top of
\* the loop, or cancelled, some time later
C28_EndsOnlyWhenCancelled ==
    /\ [][\A m \in Monitors :
             (loop_pc[m] # "ended" /\ loop_pc'[m] = "ended")
                => cancel_requested[m]]_vars
    /\ \A m \in Monitors :
          (loop_pc[m] = "cooldown") ~> (loop_pc[m] \in {"top", "ended"})

\* an error has sent each of the two loops into its cool-down, the release
\* loop out of a poll cycle that had found a new release before
C28_Witness ==
    /\ loop_pc["star"] = "cooldown"
    /\ loop_pc["release"] = "cooldown"
    /\ ~cancel_requested["star"]
    /\ ~cancel_requested["release"]
    /\ rel_last.outcome = "ok"

\* C29: the settings-changed event of the star monitor, once set, stays set
\* until the loop consumes it, and the step that consumes it takes the loop
\* from its wait straight to the top of the loop; a loop that is in its wait
\* with the event set leaves the wait only that way (or cancelled), never by
\* the interval running out; the loop has restarted at most once per signal;
\* and a signal raised at any point of the loop is consumed some time later
\* although nothing is assumed about the interval ever running out
C29_SignalRestartsOnce ==
    /\ [][/\ (settings_changed["star"] /\ ~settings_changed'["star"])
             => (loop_pc["star"] = "wait" /\ loop_pc'["star"] = "top")
          /\ (/\ loop_pc["star"] = "wait"
              /\ settings_changed["star"]
              /\ loop_pc'["star"] # "wait")
             => \/ loop_pc'["star"] = "ended"
                \/ loop_pc'["star"] = "top" /\ ~settings_changed'["star"]
          /\ loop_log'["star"].restarts <= loop_log'["star"].raised
         ]_vars
    /\ settings_changed["star"]
          ~> (~settings_changed["star"] \/ loop_pc["star"] = "ended")

\* a signal that found the star loop in the middle of a poll cycle has been
\* consumed and has restarted the loop
C29_Witness ==
    /\ loop_log["star"].at = "cycle"
    /\ loop_log["star"].raised = 1
    /\ loop_log["star"].restarts = 1
    /\ loop_pc["star"] = "top"
    /\ ~settings_changed["star"]
    /\ cycle.status = "ok"

\* what a star poll cycle can change outside the loop itself
C30_Effects == <<last_check_timestamp, repo_queue, enq_log, unfinished,
                 digest_queue, star_events, star_new, cycle>>

\* C30: when the test at the top of a star poll cycle finds monitoring paused,
\* or finds no credential stored, the loop goes on to read its interval (or
\* to its cool-down or its end, if the read raised or the task was
\* cancelled): the star API is not called, nothing is put on the delivery
\* queue or inserted into the digest queue and the marker stays as it is,
\* in that step and until the loop is at a call of the poll cycle again,
\* which it reaches only through a test that finds monitoring not paused
\* and a credential stored
C30_SkippedCycleDoesNothing ==
    [][/\ (/\ loop_pc["star"] = "top"
           /\ loop_pc'["star"] # "top"
           /\ monitoring_paused)
          => /\ loop_pc'["star"] \in {"interval", "cooldown", "ended"}
             /\ UNCHANGED C30_Effects
       /\ (/\ loop_pc["star"] = "token"
           /\ loop_pc'["star"] # "token"
           /\ ~token_stored)
          => /\ loop_pc'["star"] \in {"interval", "cooldown", "ended"}
             /\ UNCHANGED C30_Effects
       /\ (loop_pc["star"] # "token" /\ loop_pc'["star"] = "token")
          => (loop_pc["star"] = "top" /\ ~monitoring_paused)
       /\ (loop_pc["star"] # "call" /\ loop_pc'["star"] = "call")
          => (loop_pc["star"] = "token" /\ token_stored)
       /\ (loop_pc["star"] \notin {"call", "cycle"} /\ loop_pc'["star"] # "ended")
          => UNCHANGED C30_Effects
      ]_vars

\* after a cycle that moved the marker, the token was removed and the pause
\* lifted: the next cycle passed the pause test, found no credential and was
\* skipped
C30_Witness ==
    /\ loop_log["star"].skipped = "no_token"
    /\ loop_pc["star"] = "interval"
    /\ ~monitoring_paused
    /\ ~token_stored
    /\ last_check_timestamp = isoformat(1)

\* C31: while the release loop is in a poll cycle that began with monitoring
\* paused, or with no credential stored, no step puts an item on the delivery
\* queue and no step changes a stored release id
C31_PausedReleaseCycleSkipped ==
    [][(/\ loop_log["release"].skipped \in {"paused", "no_token"}
        /\ loop_pc["release"] \in {"call", "cycle"})
       => /\ enq_log' = enq_log
          /\ release_state' = release_state]_vars

\* C32: in every interleaving of the check tasks of one release poll cycle,
\* the step in which the check of a repository ends, failed or not, takes
\* that repository and no other out of the tasks still to run, leaves the
\* stored release id of every other repository as it was and leaves the loop
\* in its cycle; a check that raises nothing stores the release it fetched
\* and enqueues an event for its repository if the stored id differed,
\* whatever the checks before it did; the cycle is left only by gather()
\* returning, never into the cool-down; and every member of the cycle is
\* checked some time later
C32_ChecksAreIndependent ==
    /\ [][(rel_pc = "checking" /\ rel_pending' # rel_pending)
          => LET r == rel_last'.repo IN
             /\ r \in rel_pending
             /\ rel_pending' = rel_pending \ {r}
             /\ rel_pc' = IF rel_pending' = {} THEN "wait" ELSE "checking"
             /\ loop_pc' = loop_pc
             /\ \A q \in Repos \ {r} : release_state'[q] = release_state[q]
             /\ (rel_last'.outcome = "ok" /\ rel_last'.latest # <<>>)
                => /\ release_state'[r] = rel_last'.latest
                   /\ IF release_state[r] # rel_last'.latest
                      THEN /\ Len(enq_log') = Len(enq_log) + 1
                           /\ enq_log'[Len(enq_log')].repo = r
                           /\ enq_log'[Len(enq_log')].kind = "release"
                      ELSE enq_log' = enq_log]_vars
    /\ [][loop_pc["release"] = "cycle"
          => loop_pc'["release"] \in {"cycle", "interval"}]_vars
    /\ \A r \in Repos : (r \in rel_pending) ~> (r \notin rel_pending)

\* the check of a/b put its event and failed at its final write; the check of
\* x/y, run after it, stored its release and put its event, and gather() is
\* about to return
C32_Witness ==
    /\ loop_pc["release"] = "cycle"
    /\ rel_pc = "wait"
    /\ Len(enq_log) = 2
    /\ enq_log[1].repo = "a/b"
    /\ held["a/b"] = {}
    /\ rel_last.repo = "x/y"
    /\ rel_last.outcome = "ok"
    /\ rel_last.before = 1
    /\ release_state["x/y"] = tag_name(1)

\* what the probe of the candidate at position i of the list returned
C33_Returned(i) == get_media_info(media_in[i].url, media_in[i].answer)

\* C33: for every probe that building a media list made: if the request
\* raised, the probe returned no content type and the URL it was asked for;
\* if the response had status 200, it returned the response's Content-Type
\* (in lower case, empty when the header is absent) and the final URL of the
\* response; for any other status it returned no content type and the final
\* URL; it returned a content type only for a 200, and it returned a pair in
\* every case
C33_ProbeResult ==
    media_pc = "built"
    => \A k \in 1..Len(probe_log) :
          LET c == media_in[probe_log[k]]
              r == C33_Returned(probe_log[k])
          IN  /\ Len(r) = 2
              /\ c.answer.raised => r = <<"None", c.url>>
              /\ (~c.answer.raised /\ c.answer.status = 200)
                 => /\ r[1] # "None"
                    /\ r[1] \in {c.answer.content_type, "image/png"}
                    /\ (r[1] # c.answer.content_type
                           => c.answer.content_type = "Image/PNG")
                    /\ r[2] = c.answer.final
              /\ (~c.answer.raised /\ c.answer.status # 200)
                 => r = <<"None", c.answer.final>>
              /\ r[1] # "None"
                 <=> (~c.answer.raised /\ c.answer.status = 200)

\* a list has been built whose first probe met a 404 error page after a
\* redirect and whose second probe met a 200 with a mixed-case Content-Type
C33_Witness ==
    /\ media_pc = "built"
    /\ Len(probe_log) = 2
    /\ LET c == media_in[probe_log[1]] IN
       /\ c.answer.status = 404
       /\ c.answer.content_type = "text/html"
       /\ c.answer.final # c.url
    /\ LET c == media_in[probe_log[2]] IN
       /\ c.answer.status = 200
       /\ c.answer.content_type = "Image/PNG"
    /\ Len(media_out) = 1

\* C34: a release check that finds in the stored entry of its repository the
\* baseline which the tracking-list handler stored for release n, and
\* fetches that same release n as the latest one, puts nothing on the
\* delivery queue
C34_BaselineIdentifiesRelease ==
    [][\A n \in 1..MaxRel :
          (/\ rel_pc = "checking"
           /\ rel_pending' # rel_pending
           /\ rel_last'.known = node_id(n)
           /\ rel_last'.latest = tag_name(n))
          => enq_log' = enq_log]_vars

\* C35: every repository that the user stars after the monitor has its
\* baseline is in the digest queue, or has been put on the delivery queue,
\* some time later, in a run in which the monitor keeps polling and every
\* poll succeeds
C35_EveryNewStarHandedOver ==
    \A r \in Repos :
       (\E i \in 1..Len(starred) :
           starred[i].full_name = r /\ starred[i].after)
       ~> \/ r \in Range(RepoNames(digest_queue))
          \/ \E i \in 1..Len(enq_log) : enq_log[i].repo = r

\* C37: every repository that is in the digest queue has been put on the
\* delivery queue as a star event some time later, in a run in which the
\* scheduler keeps firing the daily and the weekly job, whatever digest mode
\* is selected and whenever
C37_DigestQueueIsDelivered ==
    \A r \in Repos :
       (r \in Range(RepoNames(digest_queue)))
       ~> (\E i \in 1..Len(enq_log) :
              /\ enq_log[i].repo = r
              /\ enq_log[i].shape = "tuple"
              /\ enq_log[i].kind = "star")

\* the stars that the last poll cycle handed over
C36_Handed == {cycle.handed[i].event : i \in 1..Len(cycle.handed)}

\* C36: the poll cycle that follows a failed one selects for hand-over no
\* star that the failed cycle had already handed over
C36_NoStarHandedTwice ==
    [][(cycle.status = "failed" /\ cycle'.status = "running")
       => Range(star_new') \cap C36_Handed = {}]_vars

\* ---------------------------------------------------------------------- C38
\* C38: every URL handed to _build_media_group after the ranking call is one
\* of the URLs extract_media_from_readme found and gave to that call, and
\* there are at most three of them, whatever the enrichment service answered
C38_OnlyCandidatesAreResolved ==
    /\ Len(media_in) <= 3
    /\ \A i \in 1..Len(media_in) : media_in[i].url \in all_media_urls

\* ---------------------------------------------------------------------- C39
\* C39: in one _send_notification call, for one event and one destination,
\* at most one of the direct, upload and plain-text calls succeeds, the call
\* that succeeded is the last one made, and while an event is being sent no
\* destination still to come has already been sent to or is listed twice
C39_AtMostOneDelivery ==
    /\ Cardinality({i \in 1..Len(send_last.attempts) :
                       send_last.attempts[i].result = "ok"}) <= 1
    /\ \A i \in 1..Len(send_last.attempts) :
          send_last.attempts[i].result = "ok" => i = Len(send_last.attempts)
    /\ wpc = "send" =>
          \A i \in 1..Len(targets) :
             /\ targets[i] \notin handling.attempted
             /\ \A j \in 1..Len(targets) : targets[i] = targets[j] => i = j

\* a photo that was refused by URL and delivered as an upload, after which no
\* text was sent, with a second destination of the same event still to come
C39_Witness ==
    /\ Len(send_last.attempts) = 2
    /\ send_last.attempts[1].how = "direct"
    /\ send_last.attempts[1].result = "content"
    /\ send_last.attempts[2].how = "upload"
    /\ send_last.attempts[2].result = "ok"
    /\ wpc = "send"
    /\ targets # <<>>
    /\ send_last.item = handling.item
    /\ send_last.target \in handling.attempted

\* ---------------------------------------------------------------------- C40
\* C40: a process_token call whose credential fails validation leaves the
\* persisted state as it was: the stored-token row, the paused flag and both
\* destination tables are the same after the call as before it
C40_InvalidTokenChangesNothing ==
    [][(\E chat \in Dests : ProcessToken(FALSE, chat))
       => UNCHANGED <<token_stored, monitoring_paused, destVars>>]_vars

====
